---- MODULE Spec2Model ----
(***************************************************************************)
(* State-machine model of the procedural environment generator             *)
(* (js/modules/Environment.js), the noise utilities it uses                *)
(* (js/utils/MathUtils.js) and the day-cycle lighting                      *)
(* (js/modules/Lighting.js) of the Summer Afternoon game.                  *)
(*                                                                         *)
(* Numbers.  JavaScript numbers are IEEE-754 doubles.  The environment     *)
(* part works on dyadic rationals n / 2^e whose numerators stay below      *)
(* 2^31: on such inputs every double operation of the code is exact, so    *)
(* the exact arithmetic below is what the program computes.  The lighting  *)
(* part uses the decimal literals 0.1 .. 1.0, which are not dyadic, and    *)
(* is modelled with correctly rounded binary64 arithmetic on 53-bit        *)
(* significands.                                                           *)
(***************************************************************************)
EXTENDS Integers, Sequences, FiniteSets, TLC

(***************************************************************************)
(* Exact dyadic arithmetic: [n |-> numerator, e |-> exponent] is n / 2^e,  *)
(* normalised so that n is odd or e = 0.                                   *)
(***************************************************************************)
RECURSIVE DyNorm(_, _)
DyNorm(n, e) ==
    IF e > 0 /\ n % 2 = 0 THEN DyNorm(n \div 2, e - 1) ELSE [n |-> n, e |-> e]

Dy(n, e) == DyNorm(n, e)

DyInt(k) == [n |-> k, e |-> 0]

DyMax(a, b) == IF a >= b THEN a ELSE b

DyAdd(a, b) ==
    LET e == DyMax(a.e, b.e)
    IN  DyNorm(a.n * 2^(e - a.e) + b.n * 2^(e - b.e), e)

DyNeg(a) == [n |-> -a.n, e |-> a.e]

DySub(a, b) == DyAdd(a, DyNeg(b))

DyMul(a, b) ==
    LET r1 == DyNorm(a.n, a.e + b.e)
        r2 == DyNorm(b.n, r1.e)
    IN  [n |-> r1.n * r2.n, e |-> r2.e]

\* Math.floor
DyFloor(a) == a.n \div 2^a.e

DyLess(a, b) ==
    LET e == DyMax(a.e, b.e)
    IN  a.n * 2^(e - a.e) < b.n * 2^(e - b.e)

Abs(k) == IF k < 0 THEN -k ELSE k

RECURSIVE BitLen(_)
BitLen(k) == IF k = 0 THEN 0 ELSE 1 + BitLen(k \div 2)

\* The significand width of a Float32Array element.
Float32Bits == 24

(***************************************************************************)
(* Storing a double into a Float32Array element (the position buffer of a  *)
(* THREE.BufferGeometry): round to nearest, ties to even, on 24 bits.      *)
(***************************************************************************)
Fround(a) ==
    LET m    == Abs(a.n)
        k    == BitLen(m) - Float32Bits
        q    == m \div 2^k
        r    == m % 2^k
        half == 2^(k - 1)
        up   == r > half \/ (r = half /\ q % 2 = 1)
        q2   == IF up THEN q + 1 ELSE q
        s    == IF a.n < 0 THEN -1 ELSE 1
    IN  IF k <= 0 THEN a
        ELSE IF k <= a.e THEN DyNorm(s * q2, a.e - k)
        ELSE [n |-> s * q2 * 2^(k - a.e), e |-> 0]

(***************************************************************************)
(* Natural numbers of any size, as little-endian sequences of limbs in     *)
(* base 2^15 without leading zero limbs (<<>> is 0).  They carry the       *)
(* significands of binary64 arithmetic.                                    *)
(***************************************************************************)
LimbBits == 15

LimbBase == 2^LimbBits

BigNat == Seq(0..(LimbBase - 1))

RECURSIVE BigNorm(_)
BigNorm(a) ==
    IF a = <<>> THEN <<>>
    ELSE IF a[Len(a)] = 0 THEN BigNorm(SubSeq(a, 1, Len(a) - 1))
    ELSE a

RECURSIVE BigOfNat(_)
BigOfNat(k) == IF k = 0 THEN <<>> ELSE <<k % LimbBase>> \o BigOfNat(k \div LimbBase)

Limb(a, i) == IF i <= Len(a) THEN a[i] ELSE 0

RECURSIVE BigAddFrom(_, _, _, _)
BigAddFrom(a, b, i, carry) ==
    IF i > Len(a) /\ i > Len(b)
    THEN (IF carry = 0 THEN <<>> ELSE <<carry>>)
    ELSE LET t == Limb(a, i) + Limb(b, i) + carry
         IN  <<t % LimbBase>> \o BigAddFrom(a, b, i + 1, t \div LimbBase)

BigAdd(a, b) == BigAddFrom(a, b, 1, 0)

\* a - b for a >= b
RECURSIVE BigSubFrom(_, _, _, _)
BigSubFrom(a, b, i, borrow) ==
    IF i > Len(a) THEN <<>>
    ELSE LET t == a[i] - Limb(b, i) - borrow
         IN  <<(t + LimbBase) % LimbBase>>
                \o BigSubFrom(a, b, i + 1, IF t < 0 THEN 1 ELSE 0)

BigSub(a, b) == BigNorm(BigSubFrom(a, b, 1, 0))

RECURSIVE BigCmpFrom(_, _, _)
BigCmpFrom(a, b, i) ==
    IF i = 0 THEN 0
    ELSE IF a[i] > b[i] THEN 1
    ELSE IF a[i] < b[i] THEN -1
    ELSE BigCmpFrom(a, b, i - 1)

\* -1, 0 or 1 as a < b, a = b or a > b
BigCmp(a, b) ==
    IF Len(a) > Len(b) THEN 1
    ELSE IF Len(a) < Len(b) THEN -1
    ELSE BigCmpFrom(a, b, Len(a))

RECURSIVE BigMulLimbFrom(_, _, _, _)
BigMulLimbFrom(a, k, i, carry) ==
    IF i > Len(a)
    THEN (IF carry = 0 THEN <<>> ELSE <<carry>>)
    ELSE LET t == a[i] * k + carry
         IN  <<t % LimbBase>> \o BigMulLimbFrom(a, k, i + 1, t \div LimbBase)

\* a * k for a limb k
BigMulLimb(a, k) == BigNorm(BigMulLimbFrom(a, k, 1, 0))

\* a * LimbBase^n
BigShiftLimbs(a, n) == IF a = <<>> THEN <<>> ELSE [i \in 1..n |-> 0] \o a

RECURSIVE BigMulFrom(_, _, _)
BigMulFrom(a, b, j) ==
    IF j > Len(b) THEN <<>>
    ELSE BigAdd(BigShiftLimbs(BigMulLimb(a, b[j]), j - 1), BigMulFrom(a, b, j + 1))

BigMul(a, b) == BigMulFrom(a, b, 1)

\* a * 2^k
BigShl(a, k) == BigShiftLimbs(BigMulLimb(a, 2^(k % LimbBits)), k \div LimbBits)

\* floor(a / 2^k)
BigShr(a, k) ==
    LET drop == k \div LimbBits
        r    == k % LimbBits
        rest == IF drop >= Len(a) THEN <<>> ELSE SubSeq(a, drop + 1, Len(a))
    IN  BigNorm([i \in 1..Len(rest) |->
                    (rest[i] \div 2^r) + (Limb(rest, i + 1) % 2^r) * 2^(LimbBits - r)])

BigBitLen(a) == IF a = <<>> THEN 0 ELSE LimbBits * (Len(a) - 1) + BitLen(a[Len(a)])

\* bit i of a, the lowest bit being bit 1
BigBit(a, i) == (Limb(a, ((i - 1) \div LimbBits) + 1) \div 2^((i - 1) % LimbBits)) % 2

BigIsOdd(a) == a # <<>> /\ a[1] % 2 = 1

\* One step of long division: bring down bit i of a.
BigDivStep(a, b, i, d) ==
    LET r2 == BigAdd(BigAdd(d.r, d.r), BigOfNat(BigBit(a, i)))
        q2 == BigAdd(d.q, d.q)
    IN  IF BigCmp(r2, b) >= 0
        THEN [q |-> BigAdd(q2, <<1>>), r |-> BigSub(r2, b)]
        ELSE [q |-> q2, r |-> r2]

\* A quotient and a remainder
QuotRem == [q : BigNat, r : BigNat]

\* Long division over the bits hi down to lo of a, from the quotient and
\* remainder d of the bits above hi (the bit range is halved to keep the
\* evaluation shallow).
BigDivBits[a \in BigNat, b \in BigNat, hi \in Nat, lo \in Nat, d \in QuotRem] ==
    IF hi < lo THEN d
    ELSE IF hi = lo THEN BigDivStep(a, b, hi, d)
    ELSE BigDivBits[a, b, ((hi + lo + 1) \div 2) - 1, lo,
                    BigDivBits[a, b, hi, (hi + lo + 1) \div 2, d]]

\* [q |-> floor(a / b), r |-> a mod b] for b # 0
BigDivMod(a, b) == BigDivBits[a, b, BigBitLen(a), 1, [q |-> <<>>, r |-> <<>>]]

(***************************************************************************)
(* binary64: [sign |-> 1 or -1, man |-> significand, exp |-> exponent] is  *)
(* sign * man * 2^exp with 2^52 <= man < 2^53, or zero.  Every operation   *)
(* rounds its exact result to nearest, ties to even, as IEEE 754 does.     *)
(* The exponents of the model stay far from the subnormal and overflow     *)
(* ranges, which are not represented; -0 is not told apart from 0 (=== in  *)
(* JavaScript does not either).  The operations are functions, so that    *)
(* an operand is a value when the operation looks at it.                   *)
(***************************************************************************)
DoubleBits == 53

Double == [sign : {-1, 1}, man : BigNat, exp : Int]

DZero == [sign |-> 1, man |-> <<>>, exp |-> 0]

\* Whether m, cut to its bits above the lowest sh, rounds up: the first
\* bit cut is 1 and either a lower bit is 1 or the last bit kept is (ties
\* go to even)
RoundsUp(m, sh) ==
    /\ BigBit(m, sh) = 1
    /\ \/ BigShl(BigShr(m, sh - 1), sh - 1) # m
       \/ BigBit(m, sh + 1) = 1

\* sign * (q or q + 1) * 2^e, renormalised when q + 1 reaches 2^53
RoundedUpIf[sign \in {-1, 1}, q \in BigNat, up \in BOOLEAN, e \in Int] ==
    LET q2 == IF up THEN BigAdd(q, <<1>>) ELSE q
    IN  IF BigBitLen(q2) > DoubleBits
        THEN [sign |-> sign, man |-> BigShr(q2, 1), exp |-> e + 1]
        ELSE [sign |-> sign, man |-> q2, exp |-> e]

\* sign * m * 2^e rounded to a double
RoundToDouble[sign \in {-1, 1}, m \in BigNat, e \in Int] ==
    LET sh == BigBitLen(m) - DoubleBits
    IN  IF m = <<>> THEN DZero
        ELSE IF sh <= 0
        THEN [sign |-> sign, man |-> BigShl(m, -sh), exp |-> e + sh]
        ELSE RoundedUpIf[sign, BigShr(m, sh), RoundsUp(m, sh), e + sh]

\* The double of an integer
DOfInt(k) == RoundToDouble[IF k < 0 THEN -1 ELSE 1, BigOfNat(Abs(k)), 0]

DNeg[a \in Double] == IF a.man = <<>> THEN a ELSE [a EXCEPT !.sign = -a.sign]

\* sa * ma + sb * mb for ma, mb # 0, as a sign and a magnitude
SignedSum[sa \in {-1, 1}, ma \in BigNat, sb \in {-1, 1}, mb \in BigNat] ==
    IF sa = sb THEN [sign |-> sa, mag |-> BigAdd(ma, mb)]
    ELSE IF BigCmp(ma, mb) >= 0 THEN [sign |-> sa, mag |-> BigSub(ma, mb)]
    ELSE [sign |-> sb, mag |-> BigSub(mb, ma)]

\* A sign and a magnitude
SignedMag == [sign : {-1, 1}, mag : BigNat]

\* The rounding of an exact sum
RoundSum[t \in SignedMag, e \in Int] ==
    RoundToDouble[t.sign, t.mag, e]

\* a + b
DAdd[a \in Double, b \in Double] ==
    LET e == IF a.exp < b.exp THEN a.exp ELSE b.exp
    IN  IF a.man = <<>> THEN b
        ELSE IF b.man = <<>> THEN a
        ELSE RoundSum[SignedSum[a.sign, BigShl(a.man, a.exp - e),
                                b.sign, BigShl(b.man, b.exp - e)], e]

\* a - b
DSub[a \in Double, b \in Double] == DAdd[a, DNeg[b]]

\* a * b
DMul[a \in Double, b \in Double] ==
    RoundToDouble[a.sign * b.sign, BigMul(a.man, b.man), a.exp + b.exp]

\* Twice the quotient, plus one when the remainder is not zero
WithSticky[d \in QuotRem] ==
    BigAdd(BigAdd(d.q, d.q), IF d.r = <<>> THEN <<>> ELSE <<1>>)

\* a / b for b # 0: the quotient to 58 or 59 bits, with a last bit that
\* tells whether anything is left below them.  Both significands have 53
\* bits, so a.man \div b.man is 0 or 1 and the long division starts there.
DDiv[a \in Double, b \in Double] ==
    LET k   == DoubleBits + 5
        top == IF BigCmp(a.man, b.man) >= 0
               THEN [q |-> <<1>>, r |-> BigSub(a.man, b.man)]
               ELSE [q |-> <<>>, r |-> a.man]
    IN  IF a.man = <<>> THEN DZero
        ELSE RoundToDouble[a.sign * b.sign,
                           WithSticky[BigDivBits[BigShl(a.man, k), b.man, k, 1, top]],
                           a.exp - b.exp - (k + 1)]

\* a < b
DLess[a \in Double, b \in Double] == LET d == DSub[a, b] IN d.man # <<>> /\ d.sign = -1

\* Math.max and Math.min
DMax[a \in Double, b \in Double] == IF DLess[a, b] THEN b ELSE a

DMin[a \in Double, b \in Double] == IF DLess[b, a] THEN b ELSE a

\* The double a decimal literal n/d denotes (0.3 is DDec(3, 10)): the
\* literal's value rounded once, as the quotient of two exact doubles is.
DDec(n, d) == DDiv[DOfInt(n), DOfInt(d)]

(***************************************************************************)
(* Numbers that are not finite.  NaN and the infinities take the encodings *)
(* with an empty mantissa and a nonzero exponent field.  The sign of a     *)
(* zero is not followed (-0 and 0 are equal to every comparison of the     *)
(* code), and the exponent range is not bounded: the values of the model   *)
(* lie far inside the range of a float.                                    *)
(***************************************************************************)
NaN == [sign |-> 1, man |-> <<>>, exp |-> 1]

Infinity(s) == [sign |-> s, man |-> <<>>, exp |-> 2]

IsNaN(a) == a.man = <<>> /\ a.exp = 1

IsInfinite(a) == a.man = <<>> /\ a.exp = 2

IsZero(a) == a.man = <<>> /\ a.exp = 0

\* Number.isFinite
IsFiniteNumber(a) == a.man # <<>> \/ a.exp = 0

\* a * b
NMul[a \in Double, b \in Double] ==
    IF IsNaN(a) \/ IsNaN(b) THEN NaN
    ELSE IF IsInfinite(a) \/ IsInfinite(b)
    THEN IF IsZero(a) \/ IsZero(b) THEN NaN ELSE Infinity(a.sign * b.sign)
    ELSE DMul[a, b]

\* a + b
NAdd[a \in Double, b \in Double] ==
    IF IsNaN(a) \/ IsNaN(b) THEN NaN
    ELSE IF IsInfinite(a)
    THEN IF IsInfinite(b) /\ b.sign # a.sign THEN NaN ELSE a
    ELSE IF IsInfinite(b) THEN b
    ELSE DAdd[a, b]

\* a / b
NDiv[a \in Double, b \in Double] ==
    IF IsNaN(a) \/ IsNaN(b) THEN NaN
    ELSE IF IsInfinite(a)
    THEN IF IsInfinite(b) THEN NaN ELSE Infinity(a.sign * b.sign)
    ELSE IF IsInfinite(b) THEN DZero
    ELSE IF IsZero(b)
    THEN IF IsZero(a) THEN NaN ELSE Infinity(a.sign)
    ELSE DDiv[a, b]

\* a < b
NLess[a \in Double, b \in Double] ==
    IF IsNaN(a) \/ IsNaN(b) THEN FALSE
    ELSE IF IsInfinite(a) THEN a.sign = -1 /\ ~(IsInfinite(b) /\ b.sign = -1)
    ELSE IF IsInfinite(b) THEN b.sign = 1
    ELSE DLess[a, b]

\* Math.fround: the value a store into a Float32Array keeps
NFround[a \in Double] ==
    IF a.man = <<>> THEN a
    ELSE LET sh == BigBitLen(a.man) - Float32Bits
         IN  IF sh <= 0 THEN a
             ELSE RoundToDouble[a.sign,
                                IF RoundsUp(a.man, sh)
                                THEN BigAdd(BigShr(a.man, sh), <<1>>)
                                ELSE BigShr(a.man, sh),
                                a.exp + sh]

\* The doubles nearest to pi and pi / 2, and the values of Math.sin and
\* Math.cos at them that are not exact: Math.sin(Math.PI) is
\* 1.2246467991473532e-16 and Math.cos(Math.PI / 2) is 6.123233995736766e-17.
Pi == [sign |-> 1, man |-> <<11544, 10376, 2029, 201>>, exp |-> -51]

HalfPi == [sign |-> 1, man |-> <<11544, 10376, 2029, 201>>, exp |-> -52]

SinPi == [sign |-> 1, man |-> <<23559, 26152, 6296, 141>>, exp |-> -105]

CosHalfPi == [sign |-> 1, man |-> <<23559, 26152, 6296, 141>>, exp |-> -106]

\* The largest integer whose square Math.sqrt is given
MaxRoot == 5

\* Math.sqrt, on NaN and on the squares of the integers up to MaxRoot
MathSqrt[a \in Double] ==
    IF IsNaN(a) THEN NaN
    ELSE DOfInt(CHOOSE k \in 0..MaxRoot : DOfInt(k * k) = a)

\* Math.atan2(z, x), on the axes
MathAtan2[z \in Double, x \in Double] ==
    CASE IsNaN(z) \/ IsNaN(x) -> NaN
      [] IsZero(z) /\ (IsZero(x) \/ x.sign = 1) -> DZero
      [] IsZero(z) /\ ~IsZero(x) /\ x.sign = -1 -> Pi
      [] ~IsZero(z) /\ IsZero(x) -> IF z.sign = 1 THEN HalfPi ELSE DNeg[HalfPi]

\* Math.acos, on NaN, -1, 0 and 1
MathAcos[a \in Double] ==
    CASE IsNaN(a) -> NaN
      [] a = DOfInt(1) -> DZero
      [] IsZero(a) -> HalfPi
      [] a = DOfInt(-1) -> Pi

\* Math.sin, on NaN and the multiples of pi / 2 above
MathSin[a \in Double] ==
    CASE IsNaN(a) \/ IsInfinite(a) -> NaN
      [] IsZero(a) -> DZero
      [] a = HalfPi -> DOfInt(1)
      [] a = DNeg[HalfPi] -> DOfInt(-1)
      [] a = Pi -> SinPi

\* Math.cos, on NaN and the multiples of pi / 2 above
MathCos[a \in Double] ==
    CASE IsNaN(a) \/ IsInfinite(a) -> NaN
      [] IsZero(a) -> DOfInt(1)
      [] a = HalfPi \/ a = DNeg[HalfPi] -> CosHalfPi
      [] a = Pi -> DOfInt(-1)

(***************************************************************************)
(* MathUtils: Perlin noise.                                                *)
(***************************************************************************)

\* MathUtils.noiseTableSize (256 in the source), scaled down; the lattice
\* masks `& 255` of the source are `% noiseTableSize` here.
noiseTableSize == 2

\* p[i] overwritten by p[j], p[j] kept
SwapOverwrite(p, i, j) == [p EXCEPT ![i + 1] = p[j + 1]]

\* p[i] and p[j] exchanged (0-based indices, as in the source)
Swap(p, i, j) == [p EXCEPT ![i + 1] = p[j + 1], ![j + 1] = p[i + 1]]

\* The Fisher-Yates loop of initNoise from index i down to 1; js[i] is the
\* value Math.floor(Math.random() * (i + 1)) drawn at index i.
RECURSIVE Shuffle(_, _, _)
Shuffle(p, i, js) ==
    IF i <= 0 THEN p ELSE Shuffle(Swap(p, i, js[i]), i - 1, js)

\* The draws the shuffle can make: js[i] \in 0..i
ShuffleDraws == {js \in [1..(noiseTableSize - 1) -> 0..(noiseTableSize - 1)] :
                    \A i \in 1..(noiseTableSize - 1) : js[i] <= i}

\* The table initNoise builds from the draws js: the shuffled permutation,
\* duplicated.
BuildNoiseTable(js) ==
    LET p == Shuffle([i \in 1..noiseTableSize |-> i - 1], noiseTableSize - 1, js)
    IN  p \o p

\* An initNoise without its guard: every call shuffles a new table.
initNoiseAlways(table, js) == BuildNoiseTable(js)

\* initNoise: the table is built only when there is none yet.
initNoise(table, js) == IF table # <<>> THEN table ELSE BuildNoiseTable(js)

\* noiseTable[k], 0-based
At(table, k) == table[k + 1]

fade(t) ==
    DyMul(DyMul(DyMul(t, t), t),
          DyAdd(DyMul(t, DySub(DyMul(t, DyInt(6)), DyInt(15))), DyInt(10)))

lerp(a, b, t) == DyAdd(a, DyMul(DySub(b, a), t))

grad2D(hash, x, y) ==
    LET h == hash % 4
        u == IF h < 2 THEN x ELSE y
        v == IF h < 2 THEN y ELSE x
    IN  DyAdd(IF h % 2 = 0 THEN u ELSE DyNeg(u),
              IF (h \div 2) % 2 = 0 THEN v ELSE DyNeg(v))

\* MathUtils.noise(x, y) on an initialised table
noise(table, x0, y0) ==
    LET X  == DyFloor(x0) % noiseTableSize
        Y  == DyFloor(y0) % noiseTableSize
        x  == DySub(x0, DyInt(DyFloor(x0)))
        y  == DySub(y0, DyInt(DyFloor(y0)))
        u  == fade(x)
        v  == fade(y)
        A  == At(table, X) + Y
        AA == At(table, A)
        AB == At(table, A + 1)
        B  == At(table, X + 1) + Y
        BA == At(table, B)
        BB == At(table, B + 1)
        x1 == DySub(x, DyInt(1))
        y1 == DySub(y, DyInt(1))
    IN  lerp(lerp(grad2D(At(table, AA), x, y), grad2D(At(table, BA), x1, y), u),
             lerp(grad2D(At(table, AB), x, y1), grad2D(At(table, BB), x1, y1), u),
             v)

(***************************************************************************)
(* Environment: configuration.  The constructor's values are scaled down   *)
(* so that the state space is finite: the noise scale is the dyadic 1/32   *)
(* (0.05 in the source), the terrain is a 2 x 2 segment plane and the      *)
(* vegetation counts are small.  The second configuration is the           *)
(* infeasible tree request: 10 trees, minDistance 20, maxDistance 15.      *)
(***************************************************************************)
TerrainConfig ==
    [size |-> 2, segments |-> 2, heightVariation |-> 8, noiseScale |-> Dy(1, 5)]

FlowersConfig == [count |-> 1, maxDistance |-> 13]

RocksConfig == [count |-> 1, maxDistance |-> 13]

GrassConfig == [patchCount |-> 1, maxDistance |-> 13]

Configs ==
    { [terrain |-> TerrainConfig,
       trees   |-> t,
       grass   |-> GrassConfig,
       flowers |-> FlowersConfig,
       rocks   |-> RocksConfig] :
      t \in { [count |-> 2,  minDistance |-> 10, maxDistance |-> 13],
              [count |-> 10, minDistance |-> 20, maxDistance |-> 15] } }

\* const maxAttempts = 50 in placeTrees
maxAttempts == 50

\* Candidate positions lie on a square lattice of this spacing, so that
\* their noise coordinates are multiples of 1/8.
PosStep == 12

\* The lattice runs from -LatticeRadius to LatticeRadius steps on each axis.
LatticeRadius == 1

\* Number of Environment.update calls the model follows.
MaxTicks == 2

VARIABLES
    noiseTable,       \* MathUtils.noiseTable: <<>> is null
    config,           \* this.config
    pc,               \* where Environment.init stands, or the object's life stage
    terrain,          \* this.terrain: <<>> is null, else the position buffer
    trees,            \* this.trees: the tree groups' positions
    grassPatches,     \* this.grassPatches
    flowers,          \* this.flowers: the flower meshes' positions
    rocks,            \* this.rocks: the rock meshes' positions
    inScene,          \* environmentGroup is a child of the scene
    slot,             \* placeTrees: the loop index i
    attempts,         \* placeTrees: attempts of the current slot
    position,         \* placeTrees: the last candidate drawn (<<>> before any)
    placedPositions,  \* placeTrees: the accepted positions
    windTime,         \* this.wind.time, in update ticks
    statsObjects,     \* this.stats.objects
    heightLog         \* answers getTerrainHeightAt has given to outside callers

envVars == <<noiseTable, config, pc, terrain, trees, grassPatches, flowers, rocks,
             inScene, slot, attempts, position, placedPositions, windTime,
             statsObjects, heightLog>>

\* Lighting: this.timeOfDay.hour, the three lights (Null until init creates
\* them, then a reference to [intensity |-> double]) and the time in
\* milliseconds since this.lastUpdate.
VARIABLES hour, sunLight, ambientLight, hemisphereLight, sinceLastUpdate

lightVars == <<hour, sunLight, ambientLight, hemisphereLight, sinceLastUpdate>>

\* GeometryUtils: the geometry being built.  routine names the displacement
\* routine its creator applies ("none" when no geometry is being built),
\* positions is geometry.attributes.position.array as a sequence of
\* vertices, vertexIndex the loop index i of the routine, inputPositions
\* the array as the routine received it, irregularity the strength
\* configured, and normalized the last result of MathUtils.normalize2D.
VARIABLES routine, positions, vertexIndex, inputPositions, irregularity, normalized

geomVars == <<routine, positions, vertexIndex, inputPositions, irregularity, normalized>>

\* MathUtils, as its callers see it: lookups is the set of the indices at
\* which the last call of noise1D, noise, noise3D, simplexNoise or
\* fractalNoise read noiseTable, and fractal the value the last call of
\* fractalNoise returned (Null before any).
VARIABLES lookups, fractal

callVars == <<lookups, fractal>>

\* Input: inputNow is performance.now() in ms, lastUpdate the time of the
\* last update that was not throttled, keys the codes of the keys held,
\* actions the action states, inputBuffer the buffered inputs, contexts the
\* context stack with its current element, gamepad the buttons pressed on
\* the connected gamepad (Null when none is connected), keyDowns the number
\* of key-down events of the keys mapped to an action so far, and
\* listenerCalls the number of times the listeners of an action were
\* triggered so far.
VARIABLES inputNow, lastUpdate, keys, actions, inputBuffer, contexts, gamepad, keyDowns, listenerCalls

inputVars == <<inputNow, lastUpdate, keys, actions, inputBuffer, contexts, gamepad, keyDowns, listenerCalls>>

\* Audio: muted is this.state.muted; audioConfig holds the four volumes of
\* this.config and gains the gain.value of the master, music, effects and
\* ambience gain nodes, all in tenths.  musicSources is the sequence of the
\* music sources created so far, each with its track name and whether
\* stop() was called on it; currentMusic is Null or refers to one of them;
\* fadeTimers holds, for each pending timeout of stopMusic, the source that
\* was current when it was set.  soundPool is the pool of the sound
\* followed, playingSounds the set of its sources that play, and
\* soundsStarted the number of sources created for it.
VARIABLES muted, audioConfig, gains, musicSources, currentMusic, fadeTimers, soundPool, playingSounds, soundsStarted

audioVars == <<muted, audioConfig, gains, musicSources, currentMusic, fadeTimers, soundPool, playingSounds, soundsStarted>>

\* Character: the y components of physics.position and physics.velocity,
\* physics.isGrounded, state.jumpCooldown, input.jump, and the number of
\* updates that were not throttled.
VARIABLES positionY, velocityY, isGrounded, jumpCooldown, inputJump, characterUpdates

characterVars == <<positionY, velocityY, isGrounded, jumpCooldown, inputJump, characterUpdates>>

\* The game: gameStage is "loading" until init has started the loop or
\* failed, isRunning and isPaused are the flags of the game object,
\* errorShown tells that showError was called since the page was loaded,
\* documentHidden is document.hidden, audioSuspended tells that the audio
\* context is suspended, and frames counts the animation frames in which
\* the subsystems were updated and the scene was rendered.
VARIABLES gameStage, isRunning, isPaused, errorShown, documentHidden, audioSuspended, frames

gameVars == <<gameStage, isRunning, isPaused, errorShown, documentHidden, audioSuspended, frames>>

\* UI notifications: queue is this.notifications.queue, a sequence of
\* notification ids; container is the set of the notifications whose
\* element is a child of the notification container; dismissTimers and
\* removalTimers are the notifications with a pending auto-dismiss timeout
\* and with a pending removal timeout; notificationsCreated counts the
\* notifications showNotification has made.
VARIABLES queue, container, dismissTimers, removalTimers, notificationsCreated

uiVars == <<queue, container, dismissTimers, removalTimers, notificationsCreated>>

\* The state of the subsystems other than the four above
otherVars == <<inputVars, audioVars, characterVars, gameVars, uiVars>>

\* What the steps of the environment leave alone, and what those of the
\* lighting, of the geometry utilities and of the noise functions do
notEnvVars == <<lightVars, geomVars, callVars, otherVars>>

notLightVars == <<envVars, geomVars, callVars, otherVars>>

notGeomVars == <<envVars, lightVars, callVars, otherVars>>

notCallVars == <<lightVars, geomVars, otherVars>>

notInputVars == <<envVars, lightVars, geomVars, callVars, audioVars, characterVars, gameVars, uiVars>>

notAudioVars == <<envVars, lightVars, geomVars, callVars, inputVars, characterVars, gameVars, uiVars>>

notCharacterVars == <<envVars, lightVars, geomVars, callVars, inputVars, audioVars, gameVars, uiVars>>

notGameVars == <<envVars, lightVars, geomVars, callVars, inputVars, audioVars, characterVars, uiVars>>

notUiVars == <<envVars, lightVars, geomVars, callVars, inputVars, audioVars, characterVars, gameVars>>

(***************************************************************************)
(* Environment: terrain.                                                   *)
(***************************************************************************)

\* new THREE.PlaneGeometry(size, size, segments, segments): the vertices of
\* a plane in the local XY plane, row by row, every z equal to 0.
PlaneGeometry(size, segments) ==
    LET n    == segments + 1
        step == size \div segments
        half == size \div 2
    IN  [k \in 1..(n * n) |->
            [x |-> DyInt(((k - 1) % n) * step - half),
             y |-> DyInt(-(((k - 1) \div n) * step - half)),
             z |-> DyInt(0)]]

\* The three octaves summed in generateTerrain for one vertex.
TerrainVertexHeight(table, cfg, x, z) ==
    LET s  == cfg.noiseScale
        hv == DyInt(cfg.heightVariation)
        h1 == DyMul(noise(table, DyMul(x, s), DyMul(z, s)), hv)
        h2 == DyMul(DyMul(noise(table, DyMul(DyMul(x, s), DyInt(2)),
                                       DyMul(DyMul(z, s), DyInt(2))), hv), Dy(1, 1))
        h3 == DyMul(DyMul(noise(table, DyMul(DyMul(x, s), DyInt(4)),
                                       DyMul(DyMul(z, s), DyInt(4))), hv), Dy(1, 2))
    IN  DyAdd(DyAdd(DyAdd(DyInt(0), h1), h2), h3)

\* generateTerrain: x and z are read from slots 0 and 2 of each vertex, the
\* height is written to slot 1 of the Float32Array.
generateTerrain(table, cfg) ==
    LET geometry == PlaneGeometry(cfg.size, cfg.segments)
    IN  [k \in DOMAIN geometry |->
            [geometry[k] EXCEPT
                !.y = Fround(TerrainVertexHeight(table, cfg, geometry[k].x, geometry[k].z))]]

\* getTerrainHeightAt(x, z)
getTerrainHeightAt(terr, table, cfg, x, z) ==
    IF terr = <<>> THEN DyInt(0)
    ELSE LET s  == cfg.noiseScale
             hv == DyInt(cfg.heightVariation)
             h1 == DyMul(noise(table, DyMul(x, s), DyMul(z, s)), hv)
             h2 == DyMul(DyMul(noise(table, DyMul(DyMul(x, s), DyInt(2)),
                                            DyMul(DyMul(z, s), DyInt(2))), hv), Dy(1, 1))
             h3 == DyMul(DyMul(noise(table, DyMul(DyMul(x, s), DyInt(4)),
                                            DyMul(DyMul(z, s), DyInt(4))), hv), Dy(1, 2))
         IN  DyAdd(DyAdd(DyAdd(DyInt(0), h1), h2), h3)

(***************************************************************************)
(* Environment: placement.                                                 *)
(***************************************************************************)

\* A y coordinate h + tenths * 0.1: the decimal 0.1 is not dyadic, and for
\* the heights of the model (below 16) adding it always changes the value.
YVal(h, tenths) == [h |-> h, tenths |-> tenths]

Lattice == (-LatticeRadius)..LatticeRadius

\* (Math.cos(angle), Math.sin(angle)) for angle = Math.random() * Math.PI * 2.
\* The angles followed are the quarter turns, whose cosine and sine are
\* taken as 0, 1 and -1 (Math.cos(Math.PI / 2) is 6.1e-17, which moves a
\* position by less than one part in 10^15).
Directions == { <<1, 0>>, <<0, 1>>, <<-1, 0>>, <<0, -1>> }

\* distance = Math.random() * maxDistance with Math.random() in [0, 1): the
\* outcomes followed are the multiples of PosStep below maxDistance.
RandomDistances(maxDistance) ==
    { d \in { PosStep * k : k \in 0..LatticeRadius } : d < maxDistance }

\* A sampler that draws x and z independently, each within maxDistance of 0:
\* a square, whose corners lie outside the disk.
getRandomTerrainPositionInSquare(maxDistance) ==
    { q \in { [x |-> PosStep * a, y |-> 0, z |-> PosStep * b] : a, b \in Lattice } :
        /\ q.x < maxDistance /\ -q.x < maxDistance
        /\ q.z < maxDistance /\ -q.z < maxDistance }

\* getRandomTerrainPosition(maxDistance): polar sampling,
\* Vector3(Math.cos(angle) * distance, 0, Math.sin(angle) * distance).
getRandomTerrainPosition(maxDistance) ==
    { [x |-> dir[1] * d, y |-> 0, z |-> dir[2] * d] :
        dir \in Directions, d \in RandomDistances(maxDistance) }

\* THREE.Vector3.distanceTo, squared
DistanceSq(p, q) ==
    (p.x - q.x) * (p.x - q.x) + (p.y - q.y) * (p.y - q.y) + (p.z - q.z) * (p.z - q.z)

\* A validity test that compares with the tree placed last only.
isValidTreePositionLastOnly(pos, existingPositions, minDistance) ==
    \/ existingPositions = <<>>
    \/ ~(DistanceSq(pos, existingPositions[Len(existingPositions)])
            < minDistance * minDistance)

\* isValidTreePosition: no existing position is nearer than minDistance
isValidTreePosition(pos, existingPositions, minDistance) ==
    \A k \in DOMAIN existingPositions :
        ~(DistanceSq(pos, existingPositions[k]) < minDistance * minDistance)

\* for (let i = 0; i < this.config.trees.count; i++), with an off-by-one
MoreSlotsInclusive(i, count) == i <= count

\* for (let i = 0; i < this.config.trees.count; i++)
MoreSlots(i, count) == i < count

\* A do-while condition that forgets the attempt budget
DrawAgainUncapped(att, valid) == ~valid

\* The condition of the do-while loop of placeTrees: draw again
DrawAgain(att, valid) == att < maxAttempts /\ ~valid

\* A slot that is never given up
SlotNeverSkipped(att) == FALSE

\* if (attempts >= maxAttempts) continue;
SlotSkipped(att) == att >= maxAttempts

\* createTree: the group takes the candidate position as it is (y = 0).
createTree(pos) == [x |-> pos.x, y |-> YVal(DyInt(0), 0), z |-> pos.z]

\* createFlower: y is the terrain height plus 0.1
createFlower(pos, terr, table, cfg) ==
    [x |-> pos.x,
     y |-> YVal(getTerrainHeightAt(terr, table, cfg, DyInt(pos.x), DyInt(pos.z)), 1),
     z |-> pos.z,
     swayedAt |-> -1]

\* createRock: y is the terrain height
createRock(pos, terr, table, cfg) ==
    [x |-> pos.x,
     y |-> YVal(getTerrainHeightAt(terr, table, cfg, DyInt(pos.x), DyInt(pos.z)), 0),
     z |-> pos.z]

\* createGrassPatch: an instanced mesh; the blades' matrices are not followed.
createGrassPatch(pos) == [name |-> "GrassPatch"]

\* updateStats: this.stats.objects
updateStats(t, g, f, r) == Len(t) + Len(g) + Len(f) + Len(r) + 1

\* The points at which outside callers query the terrain height.
QueryPoints == { [x |-> PosStep, z |-> 0] }

(***************************************************************************)
(* Environment: the state machine.                                         *)
(***************************************************************************)
EnvInit ==
    /\ noiseTable = <<>>
    /\ config \in Configs
    /\ pc = "new"
    /\ terrain = <<>>
    /\ trees = <<>>
    /\ grassPatches = <<>>
    /\ flowers = <<>>
    /\ rocks = <<>>
    /\ inScene = FALSE
    /\ slot = 0
    /\ attempts = 0
    /\ position = <<>>
    /\ placedPositions = <<>>
    /\ windTime = 0
    /\ statsObjects = 0
    /\ heightLog = {}

\* Any caller of MathUtils.noise (the geometry utilities, the terrain):
\* the first call builds the table.
NoiseCall ==
    /\ \E js \in ShuffleDraws : noiseTable' = initNoise(noiseTable, js)
    /\ UNCHANGED <<config, pc, terrain, trees, grassPatches, flowers, rocks, inScene,
                   slot, attempts, position, placedPositions, windTime, statsObjects,
                   heightLog>>
    /\ UNCHANGED notEnvVars

\* A group that joins the scene as soon as it has a child
SceneAddEarly(stage) == TRUE

\* this.scene.add(this.environmentGroup) is a statement of init that
\* follows placeRocks and setupLOD, and of no other stage
SceneAddFollows(stage) == stage = "placeRocks"

\* init, up to the first tree slot: createMaterials and generateTerrain.
InitBegin ==
    /\ pc = "new"
    /\ \E js \in ShuffleDraws :
         /\ noiseTable' = initNoise(noiseTable, js)
         /\ terrain' = generateTerrain(noiseTable', config.terrain)
    /\ pc' = IF MoreSlots(0, config.trees.count)
             THEN "placeTrees" ELSE "createGrassPatches"
    /\ slot' = 0
    /\ attempts' = 0
    /\ position' = <<>>
    /\ placedPositions' = <<>>
    /\ inScene' = (inScene \/ SceneAddFollows("generateTerrain"))
    /\ UNCHANGED <<config, trees, grassPatches, flowers, rocks, windTime,
                   statsObjects, heightLog>>
    /\ UNCHANGED notEnvVars

\* placeTrees: one pass of the do-while body, with what follows the loop
\* when the loop ends on this pass (skip the slot, or create the tree) and
\* the step to the next slot.
PlaceTreeDraw ==
    /\ pc = "placeTrees"
    /\ \E cand \in getRandomTerrainPosition(config.trees.maxDistance) :
         LET att   == attempts + 1
             valid == isValidTreePosition(cand, placedPositions, config.trees.minDistance)
         IN  /\ position' = cand
             /\ IF DrawAgain(att, valid)
                THEN /\ attempts' = att
                     /\ UNCHANGED <<slot, trees, placedPositions, pc>>
                ELSE /\ attempts' = 0
                     /\ slot' = slot + 1
                     /\ pc' = IF MoreSlots(slot + 1, config.trees.count)
                              THEN "placeTrees" ELSE "createGrassPatches"
                     /\ IF SlotSkipped(att)
                        THEN UNCHANGED <<trees, placedPositions>>
                        ELSE /\ trees' = Append(trees, createTree(cand))
                             /\ placedPositions' = Append(placedPositions, cand)
    /\ UNCHANGED <<noiseTable, config, terrain, grassPatches, flowers, rocks, inScene,
                   windTime, statsObjects, heightLog>>
    /\ UNCHANGED notEnvVars

\* createGrassPatches
CreateGrassPatches ==
    /\ pc = "createGrassPatches"
    /\ \E ps \in [1..config.grass.patchCount ->
                    getRandomTerrainPosition(config.grass.maxDistance)] :
         grassPatches' = [k \in 1..config.grass.patchCount |-> createGrassPatch(ps[k])]
    /\ pc' = "placeFlowers"
    /\ position' = <<>>
    /\ UNCHANGED <<noiseTable, config, terrain, trees, flowers, rocks, inScene, slot,
                   attempts, placedPositions, windTime, statsObjects, heightLog>>
    /\ UNCHANGED notEnvVars

\* placeFlowers
PlaceFlowers ==
    /\ pc = "placeFlowers"
    /\ \E ps \in [1..config.flowers.count ->
                    getRandomTerrainPosition(config.flowers.maxDistance)] :
         flowers' = [k \in 1..config.flowers.count |->
                        createFlower(ps[k], terrain, noiseTable, config.terrain)]
    /\ pc' = "placeRocks"
    /\ UNCHANGED <<noiseTable, config, terrain, trees, grassPatches, rocks, inScene,
                   slot, attempts, position, placedPositions, windTime, statsObjects,
                   heightLog>>
    /\ UNCHANGED notEnvVars

\* placeRocks, then the rest of init: setupLOD, scene.add(environmentGroup)
\* and updateStats.
PlaceRocks ==
    /\ pc = "placeRocks"
    /\ \E ps \in [1..config.rocks.count ->
                    getRandomTerrainPosition(config.rocks.maxDistance)] :
         rocks' = [k \in 1..config.rocks.count |->
                      createRock(ps[k], terrain, noiseTable, config.terrain)]
    /\ inScene' = (inScene \/ SceneAddFollows("placeRocks"))
    /\ statsObjects' = updateStats(trees, grassPatches, flowers, rocks')
    /\ pc' = "ready"
    /\ UNCHANGED <<noiseTable, config, terrain, trees, grassPatches, flowers, slot,
                   attempts, position, placedPositions, windTime, heightLog>>
    /\ UNCHANGED notEnvVars

\* init, the catch block: a step of generation threw.  The error is logged
\* and thrown again; what was built stays in the group, and the locals of
\* placeTrees that are dead by then take their first values.
InitFails ==
    /\ pc \in {"placeTrees", "createGrassPatches", "placeFlowers", "placeRocks"}
    /\ pc' = "failed"
    /\ attempts' = 0
    /\ position' = <<>>
    /\ UNCHANGED <<noiseTable, config, terrain, trees, grassPatches, flowers, rocks,
                   inScene, slot, placedPositions, windTime, statsObjects, heightLog>>
    /\ UNCHANGED notEnvVars

\* A sway that also lifts every flower off the ground
updateVegetationAnimationsLifting(fl, time) ==
    [k \in DOMAIN fl |->
        [fl[k] EXCEPT !.swayedAt = time, !.y = YVal(fl[k].y.h, fl[k].y.tenths + 1)]]

\* updateVegetationAnimations: every flower's rotation.z is set from
\* wind.time (every flower has a userData.swayOffset)
updateVegetationAnimations(fl, time) ==
    [k \in DOMAIN fl |-> [fl[k] EXCEPT !.swayedAt = time]]

\* update(deltaTime): updateWind, updateLOD and updateVegetationAnimations.
\* The flowers' rotation.z is a function of wind.time, recorded as the tick
\* it was computed at.
EnvUpdate ==
    /\ pc = "ready"
    /\ windTime < MaxTicks
    /\ windTime' = windTime + 1
    /\ flowers' = updateVegetationAnimations(flowers, windTime')
    /\ UNCHANGED <<noiseTable, config, pc, terrain, trees, grassPatches, rocks, inScene,
                   slot, attempts, position, placedPositions, statsObjects, heightLog>>
    /\ UNCHANGED notEnvVars

\* destroy
Destroy ==
    /\ pc \in {"new", "ready"}
    /\ pc' = "destroyed"
    /\ inScene' = FALSE
    /\ trees' = <<>>
    /\ grassPatches' = <<>>
    /\ flowers' = <<>>
    /\ rocks' = <<>>
    /\ terrain' = <<>>
    /\ UNCHANGED <<noiseTable, config, slot, attempts, position, placedPositions,
                   windTime, statsObjects, heightLog>>
    /\ UNCHANGED notEnvVars

\* An outside caller asks getTerrainHeightAt(x, z).  The answer is logged
\* with whether the terrain existed and how many updates had run.
QueryHeight ==
    /\ pc \in {"new", "ready", "destroyed"}
    /\ \E q \in QueryPoints :
         heightLog' = heightLog \cup
            { [x |-> q.x, z |-> q.z, live |-> terrain # <<>>, updates |-> windTime,
               h |-> getTerrainHeightAt(terrain, noiseTable, config.terrain,
                                        DyInt(q.x), DyInt(q.z))] }
    /\ UNCHANGED <<noiseTable, config, pc, terrain, trees, grassPatches, flowers, rocks,
                   inScene, slot, attempts, position, placedPositions, windTime,
                   statsObjects>>
    /\ UNCHANGED notEnvVars

EnvNext ==
    \/ NoiseCall
    \/ InitBegin
    \/ PlaceTreeDraw
    \/ CreateGrassPatches
    \/ PlaceFlowers
    \/ PlaceRocks
    \/ InitFails
    \/ EnvUpdate
    \/ Destroy
    \/ QueryHeight

(***************************************************************************)
(* Lighting: the day cycle.  The colour fields of the lighting data go     *)
(* through THREE.Color and are not followed; the intensities are.          *)
(***************************************************************************)
Null == <<>>

Ref(o) == <<o>>

Deref(r) == r[1]

\* this.config: the intensities the lights are created with
LightingConfig ==
    [sun |-> DDec(10, 10), ambient |-> DDec(3, 10), hemisphere |-> DDec(4, 10)]

\* this.timeOfDay.speed
speed == DDec(1, 10)

\* this.performance.updateFrequency
updateFrequency == 60

\* Object.keys(timeData).map(Number).sort(...)
times == <<6, 12, 14, 18, 22>>

\* timeData: the keyframes of calculateLightingForTime
timeData ==
    [t \in {6, 12, 14, 18, 22} |->
    CASE t = 6  -> [sunIntensity |-> DDec(3, 10), ambientIntensity |-> DDec(2, 10),
                    hemisphereIntensity |-> DDec(3, 10)]
      [] t = 12 -> [sunIntensity |-> DDec(10, 10), ambientIntensity |-> DDec(3, 10),
                    hemisphereIntensity |-> DDec(4, 10)]
      [] t = 14 -> [sunIntensity |-> DDec(9, 10), ambientIntensity |-> DDec(3, 10),
                    hemisphereIntensity |-> DDec(4, 10)]
      [] t = 18 -> [sunIntensity |-> DDec(4, 10), ambientIntensity |-> DDec(2, 10),
                    hemisphereIntensity |-> DDec(3, 10)]
      [] t = 22 -> [sunIntensity |-> DDec(1, 10), ambientIntensity |-> DDec(1, 10),
                    hemisphereIntensity |-> DDec(2, 10)]]

\* Lighting.lerp
LightingLerp[a \in Double, b \in Double, factor \in Double] == DAdd[a, DMul[DSub[b, a], factor]]

\* The lighting data
LightingData == [sunIntensity : Double, ambientIntensity : Double,
                 hemisphereIntensity : Double]

\* The tables of keyframes
Keyframes == [{6, 12, 14, 18, 22} -> LightingData]

\* calculateLightingForTime, the return statement: every field interpolated
\* between the keyframes of data at beforeTime and afterTime
InterpolateKeyframes[data \in Keyframes, beforeTime \in Nat, afterTime \in Nat, clampedFactor \in Double] ==
    [sunIntensity |->
        LightingLerp[data[beforeTime].sunIntensity, data[afterTime].sunIntensity,
                     clampedFactor],
     ambientIntensity |->
        LightingLerp[data[beforeTime].ambientIntensity,
                     data[afterTime].ambientIntensity, clampedFactor],
     hemisphereIntensity |->
        LightingLerp[data[beforeTime].hemisphereIntensity,
                     data[afterTime].hemisphereIntensity, clampedFactor]]

\* calculateLightingForTime, from the interpolation factor on
LightingBetween[beforeTime \in Nat, afterTime \in Nat, h \in Double] ==
    LET factor == DDiv[DSub[h, DOfInt(beforeTime)],
                       DSub[DOfInt(afterTime), DOfInt(beforeTime)]]
    IN  InterpolateKeyframes[timeData, beforeTime, afterTime,
                             DMax[DOfInt(0), DMin[DOfInt(1), factor]]]

\* The intervals [times[i], times[i + 1]] that hold h
Brackets(h) ==
    { i \in 1..(Len(times) - 1) :
        ~DLess[h, DOfInt(times[i])] /\ ~DLess[DOfInt(times[i + 1]), h] }

\* The keyframe times of the first of the intervals found, or the first and
\* the last keyframe time when none was found
BracketTimes[found \in SUBSET (1..4)] ==
    IF found = {} THEN <<times[1], times[Len(times)]>>
    ELSE LET first == CHOOSE i \in found : \A k \in found : i <= k
         IN  <<times[first], times[first + 1]>>

\* calculateLightingForTime, once the two keyframe times are known
LightingIn[bracket \in Nat \X Nat, h \in Double] ==
    LightingBetween[bracket[1], bracket[2], h]

\* calculateLightingForTime
calculateLightingForTime(h) == LightingIn[BracketTimes[Brackets(h)], h]

\* updateAtmosphere, for one light: a light that exists takes the intensity
WithIntensity(light, intensity) ==
    IF light = Null THEN Null ELSE Ref([Deref(light) EXCEPT !.intensity = intensity])

\* if (this.timeOfDay.hour >= 24) this.timeOfDay.hour -= 24
WrapOnce[h \in Double] == IF ~DLess[h, DOfInt(24)] THEN DSub[h, DOfInt(24)] ELSE h

\* updateTimeOfDay: advance, and take 24 off once when 24 is reached
updateTimeOfDay(h, deltaTime) == WrapOnce[DAdd[h, DMul[speed, deltaTime]]]

\* setTimeOfDay: Math.max(0, Math.min(24, hour))
setTimeOfDay(h) == DMax[DOfInt(0), DMin[DOfInt(24), h]]

\* The frame times update is called with, in seconds
DeltaTimes == { DDec(5, 2), DOfInt(10) }

\* The hours setTimeOfDay is called with
SetHours == { DOfInt(k) : k \in {-1, 0, 3, 6, 12, 14, 18, 22, 23, 24, 25} }

\* Milliseconds between two looks at the clock, and the value from which
\* the time since the last update is no longer counted
TickMs == 10

ClockCap == 20

LightInit ==
    /\ hour = DOfInt(14)
    /\ sunLight = Null
    /\ ambientLight = Null
    /\ hemisphereLight = Null
    /\ sinceLastUpdate = 0

\* updateAtmosphere
UpdateAtmosphere(h, sun, ambient, hemisphere) ==
    \E lightingData \in {calculateLightingForTime(h)} :
        /\ sunLight' = WithIntensity(sun, lightingData.sunIntensity)
        /\ ambientLight' = WithIntensity(ambient, lightingData.ambientIntensity)
        /\ hemisphereLight' = WithIntensity(hemisphere, lightingData.hemisphereIntensity)

\* init: create the three lights, then setTimeOfDay(this.timeOfDay.hour)
LightingInit ==
    /\ sunLight = Null
    /\ hour' = setTimeOfDay(hour)
    /\ UpdateAtmosphere(hour',
                        Ref([intensity |-> LightingConfig.sun]),
                        Ref([intensity |-> LightingConfig.ambient]),
                        Ref([intensity |-> LightingConfig.hemisphere]))
    /\ UNCHANGED sinceLastUpdate
    /\ UNCHANGED notLightVars

\* performance.now() moves on
ClockTick ==
    /\ sinceLastUpdate < ClockCap
    /\ sinceLastUpdate' = sinceLastUpdate + TickMs
    /\ UNCHANGED <<hour, sunLight, ambientLight, hemisphereLight>>
    /\ UNCHANGED notLightVars

\* update(deltaTime): nothing within 1000 / updateFrequency ms of the last
\* update; otherwise updateTimeOfDay, updateEffects, updateSunPosition and
\* updateAtmosphere (which sets the sun's intensity after updateEffects did).
LightingUpdate ==
    /\ \E deltaTime \in DeltaTimes :
         IF sinceLastUpdate * updateFrequency < 1000
         THEN UNCHANGED lightVars
         ELSE /\ sinceLastUpdate' = 0
              /\ hour' = updateTimeOfDay(hour, deltaTime)
              /\ UpdateAtmosphere(hour', sunLight, ambientLight, hemisphereLight)
    /\ UNCHANGED notLightVars

\* setTimeOfDay(h), from the outside
SetTimeOfDay ==
    /\ \E h \in SetHours :
         /\ hour' = setTimeOfDay(h)
         /\ UpdateAtmosphere(hour', sunLight, ambientLight, hemisphereLight)
    /\ UNCHANGED sinceLastUpdate
    /\ UNCHANGED notLightVars

LightNext ==
    \/ LightingInit
    \/ ClockTick
    \/ LightingUpdate
    \/ SetTimeOfDay

(***************************************************************************)
(* GeometryUtils: the displacement routines.  A geometry is the sequence   *)
(* of its vertices; the vertices followed are the origin and unit points   *)
(* of the axes, on which Math.sqrt, Math.atan2, Math.acos, Math.sin and    *)
(* Math.cos are known exactly.  The value MathUtils.noise or noise3D       *)
(* returns for a vertex is any of NoiseValues.                             *)
(***************************************************************************)

\* createTreeTrunk: config.height
TrunkHeight == 4

\* createTreeCrown: config.height
CrownHeight == 2

Vertex3 == [x : Double, y : Double, z : Double]

VertexAt(x, y, z) == [x |-> DOfInt(x), y |-> DOfInt(y), z |-> DOfInt(z)]

GeometryVertices ==
    { VertexAt(0, 0, 0), VertexAt(1, 0, 0), VertexAt(0, 1, 0), VertexAt(0, -1, 0) }

\* The largest number of vertices of a geometry
MaxVertices == 2

Geometries == UNION { [1..n -> GeometryVertices] : n \in 1..MaxVertices }

\* config.irregularity: none, or the 0.1 of createTreeTrunk
Irregularities == { DOfInt(0), DDec(1, 10) }

NoiseValues == { DOfInt(0), DDec(1, 2), DOfInt(-1) }

\* The values the three calls of noise3D in addRockIrregularities return
NoiseOctaves ==
    { <<DOfInt(0), DOfInt(0), DOfInt(0)>>,
      <<DDec(1, 2), DOfInt(-1), DDec(1, 2)>>,
      <<DOfInt(-1), DDec(1, 2), DOfInt(0)>> }

\* -a
NNeg[a \in Double] == IF IsInfinite(a) THEN Infinity(-a.sign) ELSE DNeg[a]

\* positions[i * 3] = x * radiusMultiplier; positions[i * 3 + 2] = z * radiusMultiplier
ScaleXZ[v \in Vertex3, radiusMultiplier \in Double] ==
    [v EXCEPT !.x = NFround[NMul[v.x, radiusMultiplier]],
              !.z = NFround[NMul[v.z, radiusMultiplier]]]

\* (y + config.height / 2) / config.height
HeightRatio[y \in Double, height \in Double] ==
    NDiv[NAdd[y, NDiv[height, DOfInt(2)]], height]

\* addTrunkIrregularities, the loop body for the vertex v
addTrunkIrregularities[v \in Vertex3, height \in Double, irr \in Double, noiseValue \in Double] ==
    LET irregularityStrength ==
            NMul[irr, NAdd[DOfInt(1), NNeg[NMul[HeightRatio[v.y, height], DDec(1, 2)]]]]
    IN  ScaleXZ[v, NAdd[DOfInt(1), NMul[noiseValue, irregularityStrength]]]

\* addConeIrregularities, the loop body once heightRatio is known
ConeDisplaced[v \in Vertex3, heightRatio \in Double, irr \in Double, noiseValue \in Double] ==
    IF NLess[DDec(1, 10), heightRatio]
    THEN ScaleXZ[v, NAdd[DOfInt(1), NMul[noiseValue, NMul[irr, heightRatio]]]]
    ELSE v

\* addConeIrregularities, the loop body for the vertex v
addConeIrregularities[v \in Vertex3, height \in Double, irr \in Double, noiseValue \in Double] ==
    ConeDisplaced[v, HeightRatio[v.y, height], irr, noiseValue]

\* Math.sqrt(x * x + y * y + z * z)
Length3[v \in Vertex3] ==
    MathSqrt[NAdd[NAdd[NMul[v.x, v.x], NMul[v.y, v.y]], NMul[v.z, v.z]]]

\* addSphereIrregularities: convert back to Cartesian
SphericalToCartesian[newRadius \in Double, theta \in Double, phi \in Double] ==
    [x |-> NFround[NMul[NMul[newRadius, MathSin[phi]], MathCos[theta]]],
     y |-> NFround[NMul[newRadius, MathCos[phi]]],
     z |-> NFround[NMul[NMul[newRadius, MathSin[phi]], MathSin[theta]]]]

\* addSphereIrregularities, the loop body once the radius is known
SphereDisplaced[v \in Vertex3, radius \in Double, strength \in Double, noiseValue \in Double] ==
    SphericalToCartesian[NMul[radius, NAdd[DOfInt(1), NMul[noiseValue, strength]]],
                         MathAtan2[v.z, v.x],
                         MathAcos[NDiv[v.y, radius]]]

\* addSphereIrregularities, the loop body for the vertex v
addSphereIrregularities[v \in Vertex3, strength \in Double, noiseValue \in Double] ==
    SphereDisplaced[v, Length3[v], strength, noiseValue]

\* addRockIrregularities, the loop body once length and displacement are known
RockDisplaced[v \in Vertex3, length \in Double, displacement \in Double] ==
    IF NLess[DZero, length]
    THEN [x |-> NFround[NAdd[v.x, NMul[NDiv[v.x, length], displacement]]],
          y |-> NFround[NAdd[v.y, NMul[NDiv[v.y, length], displacement]]],
          z |-> NFround[NAdd[v.z, NMul[NDiv[v.z, length], displacement]]]]
    ELSE v

\* addRockIrregularities, the loop body for the vertex v; n1, n2 and n3 are
\* the three values of noise3D
addRockIrregularities[v \in Vertex3, irr \in Double, n1 \in Double, n2 \in Double, n3 \in Double] ==
    LET totalNoise == NAdd[NAdd[n1, NMul[n2, DDec(1, 2)]], NMul[n3, DDec(1, 4)]]
    IN  RockDisplaced[v, Length3[v], NMul[totalNoise, irr]]

\* MathUtils.normalize2D, once the length is known
Normalized2D[x \in Double, y \in Double, length \in Double] ==
    IF IsZero(length) THEN [x |-> DZero, y |-> DZero]
    ELSE [x |-> NDiv[x, length], y |-> NDiv[y, length]]

\* MathUtils.normalize2D
normalize2D(x, y) == Normalized2D[x, y, MathSqrt[NAdd[NMul[x, x], NMul[y, y]]]]

\* The vectors normalize2D is called with
Vectors2D == { <<DOfInt(0), DOfInt(0)>>, <<DOfInt(3), DOfInt(4)>> }

\* The state of the environment other than the permutation table
envVarsButTable == <<config, pc, terrain, trees, grassPatches, flowers, rocks, inScene,
                     slot, attempts, position, placedPositions, windTime, statsObjects,
                     heightLog>>

GeomInit ==
    /\ routine = "none"
    /\ positions = <<>>
    /\ vertexIndex = 0
    /\ inputPositions = <<>>
    /\ irregularity = DZero
    /\ normalized = Null

\* createTreeTrunk, createGenericCrown, createPineCrown or createRock, up to
\* the call of the displacement routine: a new geometry.  The first
\* geometry built is the one followed.
CreateGeometry ==
    /\ routine = "none"
    /\ routine' \in {"trunk", "sphere", "cone", "rock"}
    /\ positions' \in Geometries
    /\ inputPositions' = positions'
    /\ irregularity' \in Irregularities
    /\ vertexIndex' = 0
    /\ UNCHANGED <<normalized, notGeomVars>>

\* What a pass of a displacement loop does besides displacing its vertex:
\* MathUtils.noise and noise3D begin with initNoise
DisplacementPass ==
    /\ vertexIndex < Len(positions)
    /\ vertexIndex' = vertexIndex + 1
    /\ \E js \in ShuffleDraws : noiseTable' = initNoise(noiseTable, js)
    /\ UNCHANGED <<routine, inputPositions, irregularity, normalized, envVarsButTable,
                   lightVars, callVars, otherVars>>

\* addTrunkIrregularities, one pass of the loop
TrunkVertex ==
    /\ routine = "trunk"
    /\ DisplacementPass
    /\ \E noiseValue \in NoiseValues :
         positions' = [positions EXCEPT ![vertexIndex + 1] =
            addTrunkIrregularities[@, DOfInt(TrunkHeight), irregularity, noiseValue]]

\* addSphereIrregularities, one pass of the loop
SphereVertex ==
    /\ routine = "sphere"
    /\ DisplacementPass
    /\ \E noiseValue \in NoiseValues :
         positions' = [positions EXCEPT ![vertexIndex + 1] =
            addSphereIrregularities[@, irregularity, noiseValue]]

\* addConeIrregularities, one pass of the loop
ConeVertex ==
    /\ routine = "cone"
    /\ DisplacementPass
    /\ \E noiseValue \in NoiseValues :
         positions' = [positions EXCEPT ![vertexIndex + 1] =
            addConeIrregularities[@, DOfInt(CrownHeight), irregularity, noiseValue]]

\* addRockIrregularities, one pass of the loop
RockVertex ==
    /\ routine = "rock"
    /\ DisplacementPass
    /\ \E n \in NoiseOctaves :
         positions' = [positions EXCEPT ![vertexIndex + 1] =
            addRockIrregularities[@, irregularity, n[1], n[2], n[3]]]

\* A call of MathUtils.normalize2D
Normalize2D ==
    /\ \E v \in Vectors2D : normalized' = Ref(normalize2D(v[1], v[2]))
    /\ UNCHANGED <<routine, positions, vertexIndex, inputPositions, irregularity,
                   notGeomVars>>

GeomNext ==
    \/ CreateGeometry
    \/ TrunkVertex
    \/ SphereVertex
    \/ ConeVertex
    \/ RockVertex
    \/ Normalize2D


(***************************************************************************)
(* MathUtils: the noise functions as their callers see them.               *)
(***************************************************************************)

\* A lattice coordinate used as it is
MaskNone(k) == k

\* Math.floor(x) & 255: the lattice coordinate, masked to the table size
Mask(k) == k % noiseTableSize

\* this.noiseTable[k].  An index outside the table reads undefined; what the
\* callers make of it is not followed, 0 stands for it.
TableRead(table, k) == IF k \in 0..(Len(table) - 1) THEN table[k + 1] ELSE 0

\* The indices at which noise1D(x) reads the table
noise1DIndices(table, x) ==
    LET X == Mask(DyFloor(x))
    IN  {X, X + 1}

\* The indices at which noise(x, y) reads the table
noiseIndices(table, x, y) ==
    LET X == Mask(DyFloor(x))
        Y == Mask(DyFloor(y))
        A == TableRead(table, X) + Y
        B == TableRead(table, X + 1) + Y
    IN  {X, X + 1, A, A + 1, B, B + 1,
         TableRead(table, A), TableRead(table, A + 1),
         TableRead(table, B), TableRead(table, B + 1)}

\* The indices at which noise3D(x, y, z) reads the table
noise3DIndices(table, x, y, z) ==
    LET X  == Mask(DyFloor(x))
        Y  == Mask(DyFloor(y))
        Z  == Mask(DyFloor(z))
        A  == TableRead(table, X) + Y
        AA == TableRead(table, A) + Z
        AB == TableRead(table, A + 1) + Z
        B  == TableRead(table, X + 1) + Y
        BA == TableRead(table, B) + Z
        BB == TableRead(table, B + 1) + Z
    IN  {X, X + 1, A, A + 1, B, B + 1,
         AA, BA, AB, BB, AA + 1, BA + 1, AB + 1, BB + 1}

\* The indices at which simplexNoise reads the table, for the cell (i, j)
\* of the skewed lattice and the simplex i1 (1 when x0 > y0, else 0)
simplexNoiseIndices(table, i, j, i1) ==
    LET ii == Mask(i)
        jj == Mask(j)
        j1 == 1 - i1
    IN  {jj, ii + TableRead(table, jj),
         jj + j1, ii + i1 + TableRead(table, jj + j1),
         jj + 1, ii + 1 + TableRead(table, jj + 1)}

\* The double of a dyadic number
DyToDouble(a) == RoundToDouble[IF a.n < 0 THEN -1 ELSE 1, BigOfNat(Abs(a.n)), -a.e]

\* The variables of the loop of fractalNoise
FractalLoopState == [total : Double, frequency : Nat, amplitude : Double, maxValue : Double]

\* fractalNoise, one pass of the loop, given the value of this.noise(...)
FractalPass[s \in FractalLoopState, sample \in Double, persistence \in Double] ==
    [total     |-> NAdd[s.total, NMul[sample, s.amplitude]],
     maxValue  |-> NAdd[s.maxValue, s.amplitude],
     amplitude |-> NMul[s.amplitude, persistence],
     frequency |-> s.frequency * 2]

\* fractalNoise, the loop from pass i on
RECURSIVE FractalLoop(_, _, _, _, _, _, _)
FractalLoop(s, i, table, x, y, octaves, persistence) ==
    IF i < octaves
    THEN FractalLoop(
            FractalPass[s, DyToDouble(noise(table, DyMul(x, DyInt(s.frequency)),
                                                   DyMul(y, DyInt(s.frequency)))),
                        persistence],
            i + 1, table, x, y, octaves, persistence)
    ELSE s

\* return total / maxValue
FractalResult[s \in FractalLoopState] == NDiv[s.total, s.maxValue]

\* MathUtils.fractalNoise(x, y, octaves, persistence) on an initialised table
fractalNoise(table, x, y, octaves, persistence) ==
    FractalResult[FractalLoop([total |-> DOfInt(0), frequency |-> 1,
                               amplitude |-> DOfInt(1), maxValue |-> DOfInt(0)],
                              0, table, x, y, octaves, persistence)]

\* The indices at which fractalNoise reads the table
fractalNoiseIndices(table, x, y, octaves) ==
    UNION { noiseIndices(table, DyMul(x, DyInt(2^i)), DyMul(y, DyInt(2^i))) :
              i \in 0..(octaves - 1) }

\* The largest octave count fractalNoise is called with
MaxOctaves == 2

\* The coordinates the noise functions are called with: negative, inside a
\* cell, on the last lattice line, very large
NoiseCoordinates ==
    { DyInt(-1), Dy(-1, 1), DyInt(0), Dy(1, 1), DyInt(noiseTableSize - 1), DyInt(2^20) }

\* The cells of the skewed lattice simplexNoise is called in
SimplexCells == { -1, 0, noiseTableSize - 1, 2^20 }

Persistences == { DDec(1, 2), DOfInt(1) }

CallInit ==
    /\ lookups = {}
    /\ fractal = Null

\* A call of MathUtils.initNoise
InitNoise ==
    /\ \E js \in ShuffleDraws : noiseTable' = initNoise(noiseTable, js)
    /\ UNCHANGED <<envVarsButTable, notEnvVars>>

\* What every noise function does first: this.initNoise()
NoiseEntry ==
    /\ \E js \in ShuffleDraws : noiseTable' = initNoise(noiseTable, js)
    /\ UNCHANGED <<envVarsButTable, notCallVars>>

\* A call of MathUtils.noise1D
Noise1D ==
    /\ NoiseEntry
    /\ \E x \in NoiseCoordinates : lookups' = noise1DIndices(noiseTable', x)
    /\ UNCHANGED fractal

\* A call of MathUtils.noise
Noise2D ==
    /\ NoiseEntry
    /\ \E x, y \in NoiseCoordinates : lookups' = noiseIndices(noiseTable', x, y)
    /\ UNCHANGED fractal

\* A call of MathUtils.noise3D
Noise3D ==
    /\ NoiseEntry
    /\ \E x, y, z \in NoiseCoordinates : lookups' = noise3DIndices(noiseTable', x, y, z)
    /\ UNCHANGED fractal

\* A call of MathUtils.simplexNoise
SimplexNoise ==
    /\ NoiseEntry
    /\ \E i, j \in SimplexCells, i1 \in {0, 1} :
         lookups' = simplexNoiseIndices(noiseTable', i, j, i1)
    /\ UNCHANGED fractal

\* A call of MathUtils.fractalNoise
FractalNoise ==
    /\ NoiseEntry
    /\ \E x, y \in NoiseCoordinates, octaves \in 0..MaxOctaves, persistence \in Persistences :
         /\ lookups' = fractalNoiseIndices(noiseTable', x, y, octaves)
         /\ fractal' = Ref(fractalNoise(noiseTable', x, y, octaves, persistence))

CallNext ==
    \/ InitNoise
    \/ Noise1D
    \/ Noise2D
    \/ Noise3D
    \/ SimplexNoise
    \/ FractalNoise

(***************************************************************************)
(* Input: keyboard, gamepad buttons, the input buffer and the context      *)
(* stack.  The keys followed are Space, Escape and Tab with the actions    *)
(* they map to; mouse and touch set other actions and are not followed.    *)
(***************************************************************************)

\* this.keyMappings, for the keys followed
KeyMappings == [Space |-> "jump", Escape |-> "menu", Tab |-> "inventory"]

\* this.gamepads.buttonMappings, for the actions followed
ButtonMappings == [jump |-> 0, inventory |-> 3, menu |-> 9]

\* this.contexts.modes: the modes defined
Modes == {"game", "menu", "inventory"}

\* Names that every object literal inherits from Object.prototype: looked
\* up in this.contexts.modes they give a function, which is truthy.
ObjectPrototypeKeys == {"toString"}

\* this.contexts.modes[context], as the condition of pushContext reads it
ModeIsTruthy(context) == context \in Modes \cup ObjectPrototypeKeys

\* this.inputBuffer.maxSize
maxSize == 10

\* this.inputBuffer.bufferTime, in ms
bufferTime == 200

\* this.updateFrequency of the input system
inputUpdateFrequency == 60

\* performance.now() advances by InputTickMs up to InputClockCap.
InputTickMs == 150

InputClockCap == 300

\* Key-downs are followed while the buffer holds fewer than MaxBuffered
\* inputs, and calls of pushContext and toggleContext from outside while
\* the stack holds fewer than MaxStack contexts.
MaxBuffered == 2

MaxStack == 2

\* The arguments pushContext and toggleContext are called with
ContextArguments == {"game", "menu", "inventory", "chat", "toString"}

\* The gamepad states: none connected, or the set of the buttons pressed
GamepadStates == {Null, Ref({}), Ref({0})}

\* setAction
setAction(acts, action, value) ==
    IF action \in DOMAIN acts THEN [acts EXCEPT ![action] = value] ELSE acts

\* bufferInput: push, then shift when longer than maxSize
bufferInput(buffer, action, value, timestamp) ==
    LET pushed == Append(buffer, [action |-> action, value |-> value,
                                  timestamp |-> timestamp])
    IN  IF Len(pushed) > maxSize THEN Tail(pushed) ELSE pushed

\* pushContext
pushContext(ctx, context) ==
    IF ModeIsTruthy(context)
    THEN [current |-> context, stack |-> Append(ctx.stack, context)]
    ELSE ctx

\* popContext
popContext(ctx) ==
    IF Len(ctx.stack) > 1
    THEN LET popped == SubSeq(ctx.stack, 1, Len(ctx.stack) - 1)
         IN  [current |-> popped[Len(popped)], stack |-> popped]
    ELSE ctx

\* toggleContext
toggleContext(ctx, context) ==
    IF ctx.current = context THEN popContext(ctx) ELSE pushContext(ctx, context)

\* The listeners setupContextSwitching adds: 'menu' toggles the menu
\* context and 'inventory' pushes the inventory context, when pressed.
ActionListener(ctx, action, pressed) ==
    CASE action = "menu" /\ pressed -> toggleContext(ctx, "menu")
      [] action = "inventory" /\ pressed -> pushContext(ctx, "inventory")
      [] OTHER -> ctx

\* processGamepadButtons of the connected gamepad: every mapped action is
\* set to whether its button is pressed.
processGamepadButtons(acts, pad) ==
    IF pad = Null THEN acts
    ELSE [a \in DOMAIN acts |-> ButtonMappings[a] \in Deref(pad)]

\* An input of the buffer is within the buffer time at the time now.
Fresh(input, now) == now - input.timestamp <= bufferTime

\* processInputBuffer, the body of its loop for one input
ProcessInput(st, input, now) ==
    IF Fresh(input, now)
    THEN [acts  |-> setAction(st.acts, input.action, input.value),
          ctx   |-> ActionListener(st.ctx, input.action, input.value),
          calls |-> [st.calls EXCEPT ![input.action] = @ + 1]]
    ELSE st

\* processInputBuffer: the loop over the buffer from its index k on
RECURSIVE processInputBufferFrom(_, _, _, _)
processInputBufferFrom(st, buffer, k, now) ==
    IF k > Len(buffer) THEN st
    ELSE processInputBufferFrom(ProcessInput(st, buffer[k], now), buffer, k + 1, now)

\* processInputBuffer
processInputBuffer(st, buffer, now) == processInputBufferFrom(st, buffer, 1, now)

\* cleanInputBuffer
cleanInputBuffer(buffer, now) == SelectSeq(buffer, LAMBDA i : Fresh(i, now))

InputInit ==
    /\ inputNow = 0
    /\ lastUpdate = 0
    /\ keys = {}
    /\ actions = [a \in DOMAIN ButtonMappings |-> FALSE]
    /\ inputBuffer = <<>>
    /\ contexts = [current |-> "game", stack |-> <<"game">>]
    /\ gamepad = Null
    /\ keyDowns = [a \in DOMAIN ButtonMappings |-> 0]
    /\ listenerCalls = [a \in DOMAIN ButtonMappings |-> 0]

\* performance.now() moves on
InputClockTick ==
    /\ inputNow < InputClockCap
    /\ inputNow' = inputNow + InputTickMs
    /\ UNCHANGED <<lastUpdate, keys, actions, inputBuffer, contexts, gamepad, keyDowns, listenerCalls>>
    /\ UNCHANGED notInputVars

\* handleKeyDown, for a key that is not held
HandleKeyDown ==
    /\ Len(inputBuffer) < MaxBuffered
    /\ \E keyCode \in DOMAIN KeyMappings \ keys :
         /\ keys' = keys \cup {keyCode}
         /\ actions' = setAction(actions, KeyMappings[keyCode], TRUE)
         /\ inputBuffer' = bufferInput(inputBuffer, KeyMappings[keyCode], TRUE, inputNow)
         /\ keyDowns' = [keyDowns EXCEPT ![KeyMappings[keyCode]] = @ + 1]
    /\ UNCHANGED <<inputNow, lastUpdate, contexts, gamepad, listenerCalls>>
    /\ UNCHANGED notInputVars

\* handleKeyUp, for a key that is held
HandleKeyUp ==
    /\ \E keyCode \in keys :
         /\ keys' = keys \ {keyCode}
         /\ actions' = setAction(actions, KeyMappings[keyCode], FALSE)
    /\ UNCHANGED <<inputNow, lastUpdate, inputBuffer, contexts, gamepad, keyDowns, listenerCalls>>
    /\ UNCHANGED notInputVars

\* A gamepad is connected or disconnected, or a button of it changes
GamepadChange ==
    /\ \E pad \in GamepadStates \ {gamepad} : gamepad' = pad
    /\ UNCHANGED <<inputNow, lastUpdate, keys, actions, inputBuffer, contexts, keyDowns, listenerCalls>>
    /\ UNCHANGED notInputVars

\* update: nothing within 1000 / updateFrequency ms of the last update;
\* otherwise updateGamepads, processInputBuffer and cleanInputBuffer
\* (updateCharacterInputs hands the actions on and changes nothing here).
InputUpdate ==
    /\ IF (inputNow - lastUpdate) * inputUpdateFrequency < 1000
       THEN UNCHANGED inputVars
       ELSE \E st \in {processInputBuffer([acts  |-> processGamepadButtons(actions, gamepad),
                                           ctx   |-> contexts,
                                           calls |-> listenerCalls],
                                          inputBuffer, inputNow)} :
              /\ lastUpdate' = inputNow
              /\ actions' = st.acts
              /\ contexts' = st.ctx
              /\ listenerCalls' = st.calls
              /\ inputBuffer' = cleanInputBuffer(inputBuffer, inputNow)
              /\ UNCHANGED <<inputNow, keys, gamepad, keyDowns>>
    /\ UNCHANGED notInputVars

\* pushContext(context), from the outside
PushContext ==
    /\ Len(contexts.stack) < MaxStack
    /\ \E context \in ContextArguments : contexts' = pushContext(contexts, context)
    /\ UNCHANGED <<inputNow, lastUpdate, keys, actions, inputBuffer, gamepad, keyDowns, listenerCalls>>
    /\ UNCHANGED notInputVars

\* popContext(), from the outside
PopContext ==
    /\ contexts' = popContext(contexts)
    /\ UNCHANGED <<inputNow, lastUpdate, keys, actions, inputBuffer, gamepad, keyDowns, listenerCalls>>
    /\ UNCHANGED notInputVars

\* toggleContext(context), from the outside
ToggleContext ==
    /\ Len(contexts.stack) < MaxStack
    /\ \E context \in ContextArguments : contexts' = toggleContext(contexts, context)
    /\ UNCHANGED <<inputNow, lastUpdate, keys, actions, inputBuffer, gamepad, keyDowns, listenerCalls>>
    /\ UNCHANGED notInputVars

InputNext ==
    \/ InputClockTick
    \/ HandleKeyDown
    \/ HandleKeyUp
    \/ GamepadChange
    \/ InputUpdate
    \/ PushContext
    \/ PopContext
    \/ ToggleContext

(***************************************************************************)
(* Audio: volumes and muting, the music track with its fades, and the      *)
(* pool of one sound.  The audio system is initialized; volumes are in     *)
(* tenths, so that masterVolume 0.7 is 7.                                  *)
(***************************************************************************)

\* this.config, the volumes
AudioConfig == [masterVolume |-> 7, musicVolume |-> 5, effectsVolume |-> 8, ambienceVolume |-> 6]

\* this.poolSizes.jump
PoolSize == 3

\* The tracks of this.music, and a name that is not among them
MusicNames == {"A", "B"}

MusicArguments == MusicNames \cup {"missing"}

\* The volumes the setters are called with, in tenths
VolumeArguments == {-5, 5, 15}

\* The music sources and the sound sources created are at most these many.
MaxMusicSources == 3

MaxSounds == 4

\* Math.max(0, Math.min(1, volume)), in tenths
ClampVolume(volume) ==
    IF volume < 0 THEN 0 ELSE IF volume > 10 THEN 10 ELSE volume

\* source.stop() on the music source k
StopSource(srcs, k) == [srcs EXCEPT ![k].stopped = TRUE]

\* stopMusic(fadeOut): with a fade, the gain ramps down and a timeout is
\* set; without, the current source is stopped and currentMusic cleared.
stopMusic(st, fadeOut) ==
    IF st.currentMusic = Null THEN st
    ELSE IF fadeOut
         THEN [st EXCEPT !.fadeTimers = Append(@, Deref(st.currentMusic))]
         ELSE [st EXCEPT !.musicSources = StopSource(@, Deref(st.currentMusic)),
                         !.currentMusic = Null]

\* The callback of the timeout of stopMusic
FadeTimeout(st) ==
    IF st.currentMusic # Null
    THEN [st EXCEPT !.musicSources = StopSource(@, Deref(st.currentMusic)),
                    !.currentMusic = Null]
    ELSE st

\* playMusic(musicName, fadeIn), after its guards: stop the current music,
\* create and start a source, and make it the current music.
playMusic(st, musicName, fadeIn) ==
    LET stopped == IF st.currentMusic # Null THEN stopMusic(st, fadeIn) ELSE st
        created == Append(stopped.musicSources, [name |-> musicName, stopped |-> FALSE])
    IN  [stopped EXCEPT !.musicSources = created,
                        !.currentMusic = Ref(Len(created))]

\* pool.find(item => !item.playing): the index of the first free item, 0
\* when there is none
FirstFree(pool) ==
    IF \E k \in DOMAIN pool : ~pool[k].playing
    THEN CHOOSE k \in DOMAIN pool :
            ~pool[k].playing /\ \A j \in 1..(k - 1) : pool[j].playing
    ELSE 0

\* getAudioSourceFromPool: the pool after the call (the source returned is
\* a new buffer source in either case of playSound)
getAudioSourceFromPool(pool) ==
    IF FirstFree(pool) # 0
    THEN [pool EXCEPT ![FirstFree(pool)].playing = TRUE]
    ELSE pool

\* returnAudioSourceToPool: the item whose source is the source returned
\* becomes free
returnAudioSourceToPool(pool, source) ==
    IF \E k \in DOMAIN pool : pool[k].source = Ref(source)
    THEN LET k == CHOOSE j \in DOMAIN pool :
                     pool[j].source = Ref(source)
                     /\ \A i \in 1..(j - 1) : pool[i].source # Ref(source)
         IN  [pool EXCEPT ![k].playing = FALSE, ![k].source = Null]
    ELSE pool

\* The music part of the state
MusicState == [musicSources |-> musicSources, currentMusic |-> currentMusic, fadeTimers |-> fadeTimers]

AudioInit ==
    /\ muted = FALSE
    /\ audioConfig = AudioConfig
    /\ gains = [master   |-> AudioConfig.masterVolume,
                music    |-> AudioConfig.musicVolume,
                effects  |-> AudioConfig.effectsVolume,
                ambience |-> AudioConfig.ambienceVolume]
    /\ musicSources = <<>>
    /\ currentMusic = Null
    /\ fadeTimers = <<>>
    /\ soundPool = [k \in 1..PoolSize |-> [playing |-> FALSE, source |-> Null]]
    /\ playingSounds = {}
    /\ soundsStarted = 0

\* mute
Mute ==
    /\ muted' = TRUE
    /\ gains' = [gains EXCEPT !.master = 0]
    /\ UNCHANGED <<audioConfig, musicSources, currentMusic, fadeTimers, soundPool,
                   playingSounds, soundsStarted>>
    /\ UNCHANGED notAudioVars

\* unmute
Unmute ==
    /\ muted' = FALSE
    /\ gains' = [gains EXCEPT !.master = audioConfig.masterVolume]
    /\ UNCHANGED <<audioConfig, musicSources, currentMusic, fadeTimers, soundPool,
                   playingSounds, soundsStarted>>
    /\ UNCHANGED notAudioVars

\* setMasterVolume
SetMasterVolume ==
    /\ \E volume \in VolumeArguments :
         /\ audioConfig' = [audioConfig EXCEPT !.masterVolume = ClampVolume(volume)]
         /\ gains' = [gains EXCEPT !.master = audioConfig'.masterVolume]
    /\ UNCHANGED <<muted, musicSources, currentMusic, fadeTimers, soundPool,
                   playingSounds, soundsStarted>>
    /\ UNCHANGED notAudioVars

\* setMusicVolume
SetMusicVolume ==
    /\ \E volume \in VolumeArguments :
         /\ audioConfig' = [audioConfig EXCEPT !.musicVolume = ClampVolume(volume)]
         /\ gains' = [gains EXCEPT !.music = audioConfig'.musicVolume]
    /\ UNCHANGED <<muted, musicSources, currentMusic, fadeTimers, soundPool,
                   playingSounds, soundsStarted>>
    /\ UNCHANGED notAudioVars

\* setEffectsVolume
SetEffectsVolume ==
    /\ \E volume \in VolumeArguments :
         /\ audioConfig' = [audioConfig EXCEPT !.effectsVolume = ClampVolume(volume)]
         /\ gains' = [gains EXCEPT !.effects = audioConfig'.effectsVolume]
    /\ UNCHANGED <<muted, musicSources, currentMusic, fadeTimers, soundPool,
                   playingSounds, soundsStarted>>
    /\ UNCHANGED notAudioVars

\* setAmbienceVolume
SetAmbienceVolume ==
    /\ \E volume \in VolumeArguments :
         /\ audioConfig' = [audioConfig EXCEPT !.ambienceVolume = ClampVolume(volume)]
         /\ gains' = [gains EXCEPT !.ambience = audioConfig'.ambienceVolume]
    /\ UNCHANGED <<muted, musicSources, currentMusic, fadeTimers, soundPool,
                   playingSounds, soundsStarted>>
    /\ UNCHANGED notAudioVars

\* playSound of the sound followed: null when muted; otherwise a pool item
\* is taken if one is free, and a new source starts and is tracked.
PlaySound ==
    /\ soundsStarted < MaxSounds
    /\ IF muted
       THEN UNCHANGED <<soundPool, playingSounds, soundsStarted>>
       ELSE /\ soundPool' = getAudioSourceFromPool(soundPool)
            /\ soundsStarted' = soundsStarted + 1
            /\ playingSounds' = playingSounds \cup {soundsStarted'}
    /\ UNCHANGED <<muted, audioConfig, gains, musicSources, currentMusic, fadeTimers>>
    /\ UNCHANGED notAudioVars

\* audioSource.onended: the sound is no longer tracked and its source goes
\* back to the pool.
SoundEnded ==
    /\ \E source \in playingSounds :
         /\ playingSounds' = playingSounds \ {source}
         /\ soundPool' = returnAudioSourceToPool(soundPool, source)
    /\ UNCHANGED <<muted, audioConfig, gains, musicSources, currentMusic, fadeTimers,
                   soundsStarted>>
    /\ UNCHANGED notAudioVars

\* playMusic(musicName, fadeIn): false when muted or when the track is
\* not loaded
PlayMusic ==
    /\ Len(musicSources) < MaxMusicSources
    /\ \E musicName \in MusicArguments, fadeIn \in BOOLEAN :
         IF muted \/ musicName \notin MusicNames
         THEN UNCHANGED <<musicSources, currentMusic, fadeTimers>>
         ELSE \E st \in {playMusic(MusicState, musicName, fadeIn)} :
                /\ musicSources' = st.musicSources
                /\ currentMusic' = st.currentMusic
                /\ fadeTimers' = st.fadeTimers
    /\ UNCHANGED <<muted, audioConfig, gains, soundPool, playingSounds, soundsStarted>>
    /\ UNCHANGED notAudioVars

\* stopMusic(fadeOut), from the outside
StopMusic ==
    /\ \E fadeOut \in BOOLEAN :
         \E st \in {stopMusic(MusicState, fadeOut)} :
           /\ musicSources' = st.musicSources
           /\ currentMusic' = st.currentMusic
           /\ fadeTimers' = st.fadeTimers
    /\ Len(fadeTimers') <= MaxMusicSources
    /\ UNCHANGED <<muted, audioConfig, gains, soundPool, playingSounds, soundsStarted>>
    /\ UNCHANGED notAudioVars

\* The oldest timeout of stopMusic fires, fadeTime after it was set.
FadeTimerFires ==
    /\ fadeTimers # <<>>
    /\ \E st \in {FadeTimeout(MusicState)} :
         /\ musicSources' = st.musicSources
         /\ currentMusic' = st.currentMusic
    /\ fadeTimers' = Tail(fadeTimers)
    /\ UNCHANGED <<muted, audioConfig, gains, soundPool, playingSounds, soundsStarted>>
    /\ UNCHANGED notAudioVars

\* Muting and the volume setters
VolumeNext ==
    \/ Mute
    \/ Unmute
    \/ SetMasterVolume
    \/ SetMusicVolume
    \/ SetEffectsVolume
    \/ SetAmbienceVolume

\* Sounds and music, with muting
PlaybackNext ==
    \/ Mute
    \/ Unmute
    \/ PlaySound
    \/ SoundEnded
    \/ PlayMusic
    \/ StopMusic
    \/ FadeTimerFires

(***************************************************************************)
(* Character: vertical physics, the ground check and jumping.  The ground  *)
(* is flat at height 0 below the character; horizontal movement, effects,  *)
(* audio and the camera are not followed.                                  *)
(***************************************************************************)

\* this.physics.gravity and this.physics.jumpForce
gravity == -25

jumpForce == 12

\* this.physics.airResistance
airResistance == DDec(98, 100)

\* this.collision.height / 2, and the same plus 0.1
HalfHeight == DDiv[DDec(18, 10), DOfInt(2)]

GroundedWithin == DAdd[HalfHeight, DDec(1, 10)]

\* this.collision.raycaster.far = this.collision.radius * 2
RayFar == DMul[DDec(8, 10), DOfInt(2)]

\* The jump cooldown jump() sets
JumpCooldown == DDec(2, 10)

\* The deltaTime of an update, 16 ms
CharacterDeltaTime == DDec(16, 1000)

\* The updates followed are at most these many.
MaxCharacterUpdates == 50

\* The y of the ground below the character
GroundY == DOfInt(0)

\* The part of the character's state an update works on
CharacterState ==
    [y |-> positionY, vy |-> velocityY, grounded |-> isGrounded,
     cooldown |-> jumpCooldown]

\* updatePhysics, the y components: gravity unless grounded, a grounded
\* character's vertical velocity is set to 0, air resistance, then velocity
\* and position are integrated.
updatePhysics(st, deltaTime) ==
    LET accY == IF st.grounded THEN DOfInt(0) ELSE DOfInt(gravity)
        vy0  == IF st.grounded THEN DOfInt(0) ELSE st.vy
        vy   == DAdd[DMul[vy0, airResistance], DMul[accY, deltaTime]]
    IN  [st EXCEPT !.vy = vy, !.y = DAdd[st.y, DMul[vy, deltaTime]]]

\* canJump
canJump(st) == st.grounded /\ ~DLess[DOfInt(0), st.cooldown]

\* jump
jump(st) ==
    IF canJump(st)
    THEN [st EXCEPT !.vy = DOfInt(jumpForce), !.grounded = FALSE,
                    !.cooldown = JumpCooldown]
    ELSE st

\* updateMovement, its end: jump when the input asks for it and the
\* character can, then the cooldown runs down.
updateMovement(st, jumpInput, deltaTime) ==
    LET jumped == IF jumpInput /\ canJump(st) THEN jump(st) ELSE st
    IN  IF DLess[DOfInt(0), jumped.cooldown]
        THEN [jumped EXCEPT !.cooldown = DSub[@, deltaTime]]
        ELSE jumped

\* checkGroundCollision: the ray cast down from the position meets the
\* ground when the ground is at most RayFar below.
checkGroundCollision(st) ==
    LET groundDistance == DSub[st.y, GroundY]
        intersects == ~DLess[groundDistance, DOfInt(0)] /\ ~DLess[RayFar, groundDistance]
    IN  IF intersects /\ ~DLess[GroundedWithin, groundDistance]
        THEN IF DLess[st.y, DAdd[GroundY, HalfHeight]]
             THEN [st EXCEPT !.grounded = TRUE, !.y = DAdd[GroundY, HalfHeight],
                             !.vy = DOfInt(0)]
             ELSE [st EXCEPT !.grounded = TRUE]
        ELSE [st EXCEPT !.grounded = FALSE]

\* The constructor: position (0, 5, 10), at rest, not grounded
CharacterInit ==
    /\ positionY = DOfInt(5)
    /\ velocityY = DOfInt(0)
    /\ isGrounded = FALSE
    /\ jumpCooldown = DOfInt(0)
    /\ inputJump = FALSE
    /\ characterUpdates = 0

\* setInput('jump', value), as Input.updateCharacterInputs calls it
SetInputJump ==
    /\ inputJump' = ~inputJump
    /\ UNCHANGED <<positionY, velocityY, isGrounded, jumpCooldown, characterUpdates>>
    /\ UNCHANGED notCharacterVars

\* jump(), from the outside
Jump ==
    /\ \E st \in {jump(CharacterState)} :
         /\ velocityY' = st.vy
         /\ isGrounded' = st.grounded
         /\ jumpCooldown' = st.cooldown
    /\ UNCHANGED <<positionY, inputJump, characterUpdates>>
    /\ UNCHANGED notCharacterVars

\* update(deltaTime): nothing when throttled; otherwise updatePhysics,
\* updateMovement and updateCollisions (updateEffects, updateAudio,
\* updateCamera and updateState change nothing that is followed).
CharacterUpdate ==
    /\ characterUpdates < MaxCharacterUpdates
    /\ \E throttled \in BOOLEAN :
         IF throttled
         THEN UNCHANGED characterVars
         ELSE \E st \in {checkGroundCollision(
                            updateMovement(updatePhysics(CharacterState, CharacterDeltaTime),
                                           inputJump, CharacterDeltaTime))} :
                /\ positionY' = st.y
                /\ velocityY' = st.vy
                /\ isGrounded' = st.grounded
                /\ jumpCooldown' = st.cooldown
                /\ characterUpdates' = characterUpdates + 1
                /\ UNCHANGED inputJump
    /\ UNCHANGED notCharacterVars

CharacterNext ==
    \/ SetInputJump
    \/ Jump
    \/ CharacterUpdate

(***************************************************************************)
(* The game object: starting, pausing and resuming, the animation loop     *)
(* and showError.  What the subsystems do in a frame is not followed here, *)
(* only that they ran.                                                     *)
(***************************************************************************)

\* The frames counted are at most these many.
MaxFrames == 8

\* The flags of the game and of the audio context that pause and resume
\* work on
PauseState == [isRunning |-> isRunning, isPaused |-> isPaused, audioSuspended |-> audioSuspended]

\* pause: a running game is paused and the audio context suspended
pause(st) ==
    IF st.isRunning
    THEN [st EXCEPT !.isPaused = TRUE, !.audioSuspended = TRUE]
    ELSE st

\* resume: a running game that is paused goes on and the audio context
\* resumes
resume(st) ==
    IF st.isRunning /\ st.isPaused
    THEN [st EXCEPT !.isPaused = FALSE, !.audioSuspended = FALSE]
    ELSE st

\* The flags become those of st
SetPauseState(st) ==
    /\ isRunning' = st.isRunning
    /\ isPaused' = st.isPaused
    /\ audioSuspended' = st.audioSuspended

GameInit ==
    /\ gameStage = "loading"
    /\ isRunning = FALSE
    /\ isPaused = FALSE
    /\ errorShown = FALSE
    /\ documentHidden = FALSE
    /\ audioSuspended = FALSE
    /\ frames = 0

\* init succeeds: setupEventListeners, then start
GameStart ==
    /\ gameStage = "loading"
    /\ gameStage' = "started"
    /\ isRunning' = TRUE
    /\ isPaused' = FALSE
    /\ UNCHANGED <<errorShown, documentHidden, audioSuspended, frames>>
    /\ UNCHANGED notGameVars

\* init fails: the catch block calls showError
GameInitFails ==
    /\ gameStage = "loading"
    /\ gameStage' = "failed"
    /\ errorShown' = TRUE
    /\ SetPauseState(pause(PauseState))
    /\ UNCHANGED <<documentHidden, frames>>
    /\ UNCHANGED notGameVars

\* showError, called by the handlers of 'error' and 'unhandledrejection'
ShowError ==
    /\ errorShown' = TRUE
    /\ SetPauseState(pause(PauseState))
    /\ UNCHANGED <<gameStage, documentHidden, frames>>
    /\ UNCHANGED notGameVars

\* The window loses the focus; the listener exists once init has succeeded.
WindowBlur ==
    /\ gameStage = "started"
    /\ SetPauseState(pause(PauseState))
    /\ UNCHANGED <<gameStage, errorShown, documentHidden, frames>>
    /\ UNCHANGED notGameVars

\* The window gets the focus
WindowFocus ==
    /\ gameStage = "started"
    /\ SetPauseState(resume(PauseState))
    /\ UNCHANGED <<gameStage, errorShown, documentHidden, frames>>
    /\ UNCHANGED notGameVars

\* visibilitychange: pause when the document is hidden now, else resume
VisibilityChange ==
    /\ documentHidden' = ~documentHidden
    /\ IF gameStage = "started"
       THEN SetPauseState(IF documentHidden' THEN pause(PauseState)
                                              ELSE resume(PauseState))
       ELSE UNCHANGED <<isRunning, isPaused, audioSuspended>>
    /\ UNCHANGED <<gameStage, errorShown, frames>>
    /\ UNCHANGED notGameVars

\* animate, one frame of a running game: nothing when paused; otherwise
\* the subsystems are updated and the scene is rendered, and if that
\* throws, showError is called.
Animate ==
    /\ isRunning
    /\ frames < MaxFrames
    /\ IF isPaused
       THEN UNCHANGED <<isRunning, isPaused, audioSuspended, errorShown, frames>>
       ELSE \E throws \in BOOLEAN :
              /\ frames' = frames + 1
              /\ IF throws
                 THEN /\ errorShown' = TRUE
                      /\ SetPauseState(pause(PauseState))
                 ELSE UNCHANGED <<isRunning, isPaused, audioSuspended, errorShown>>
    /\ UNCHANGED <<gameStage, documentHidden>>
    /\ UNCHANGED notGameVars

\* The page is reloaded (the button of the error modal): a new game object
PageReload ==
    /\ gameStage # "loading"
    /\ gameStage' = "loading"
    /\ isRunning' = FALSE
    /\ isPaused' = FALSE
    /\ errorShown' = FALSE
    /\ audioSuspended' = FALSE
    /\ frames' = 0
    /\ UNCHANGED documentHidden
    /\ UNCHANGED notGameVars

GameNext ==
    \/ GameStart
    \/ GameInitFails
    \/ ShowError
    \/ WindowBlur
    \/ WindowFocus
    \/ VisibilityChange
    \/ Animate
    \/ PageReload

(***************************************************************************)
(* UI: the notification queue and the notifications displayed.  Two        *)
(* removal timeouts pending for one element act as one, since the second   *)
(* finds the element gone; state.notificationsEnabled is true throughout.  *)
(***************************************************************************)

\* this.notifications.maxVisible
maxVisible == 3

\* showNotification is followed for this many notifications.
MaxNotifications == 5

\* updateNotifications that displays the head of the queue whatever the
\* number of notifications displayed
updateNotificationsUnguarded(q, shown) ==
    IF Len(q) > 0
    THEN [queue |-> Tail(q), container |-> shown \cup {Head(q)}]
    ELSE [queue |-> q, container |-> shown]

\* updateNotifications: when the queue is not empty and fewer than
\* maxVisible elements are in the container, the head of the queue is
\* taken and displayed.
updateNotifications(q, shown) ==
    IF Len(q) > 0 /\ Cardinality(shown) < maxVisible
    THEN [queue |-> Tail(q), container |-> shown \cup {Head(q)}]
    ELSE [queue |-> q, container |-> shown]

UiInit ==
    /\ queue = <<>>
    /\ container = {}
    /\ dismissTimers = {}
    /\ removalTimers = {}
    /\ notificationsCreated = 0

\* showNotification
ShowNotification ==
    /\ notificationsCreated < MaxNotifications
    /\ notificationsCreated' = notificationsCreated + 1
    /\ queue' = Append(queue, notificationsCreated')
    /\ UNCHANGED <<container, dismissTimers, removalTimers>>
    /\ UNCHANGED notUiVars

\* update: nothing when throttled; otherwise updateNotifications, and
\* displayNotification sets the auto-dismiss timeout of what it displays.
UiUpdate ==
    /\ \E throttled \in BOOLEAN :
         IF throttled
         THEN UNCHANGED <<queue, container, dismissTimers>>
         ELSE \E st \in {updateNotifications(queue, container)} :
                /\ queue' = st.queue
                /\ container' = st.container
                /\ dismissTimers' = dismissTimers \cup (st.container \ container)
    /\ UNCHANGED <<removalTimers, notificationsCreated>>
    /\ UNCHANGED notUiVars

\* The auto-dismiss timeout of a notification fires: dismissNotification
AutoDismiss ==
    /\ \E n \in dismissTimers :
         /\ dismissTimers' = dismissTimers \ {n}
         /\ removalTimers' = removalTimers \cup {n}
    /\ UNCHANGED <<queue, container, notificationsCreated>>
    /\ UNCHANGED notUiVars

\* A click on a displayed notification: dismissNotification
ClickDismiss ==
    /\ \E n \in container : removalTimers' = removalTimers \cup {n}
    /\ UNCHANGED <<queue, container, dismissTimers, notificationsCreated>>
    /\ UNCHANGED notUiVars

\* The removal timeout of dismissNotification fires: the element is
\* removed if it still has a parent.
RemovalFires ==
    /\ \E n \in removalTimers :
         /\ removalTimers' = removalTimers \ {n}
         /\ container' = container \ {n}
    /\ UNCHANGED <<queue, dismissTimers, notificationsCreated>>
    /\ UNCHANGED notUiVars

UiNext ==
    \/ ShowNotification
    \/ UiUpdate
    \/ AutoDismiss
    \/ ClickDismiss
    \/ RemovalFires

vars == <<envVars, lightVars, geomVars, callVars, otherVars>>

Init == EnvInit /\ LightInit /\ GeomInit /\ CallInit /\ InputInit /\ AudioInit /\ CharacterInit /\ GameInit /\ UiInit

Next == EnvNext

\* The environment generator
Spec == Init /\ [][Next]_vars

\* The day cycle
SpecLight == Init /\ [][LightNext]_vars

\* The geometry utilities alone
SpecGeom == Init /\ [][GeomNext]_vars

\* The noise functions alone
SpecNoise == Init /\ [][CallNext]_vars

\* The input system
SpecInput == Init /\ [][InputNext]_vars

\* The audio system: its volumes, and what it plays
SpecVolume == Init /\ [][VolumeNext]_vars

SpecPlayback == Init /\ [][PlaybackNext]_vars

\* The character
SpecCharacter == Init /\ [][CharacterNext]_vars

\* The game loop with its pausing
SpecGame == Init /\ [][GameNext]_vars

\* The notifications of the UI
SpecUi == Init /\ [][UiNext]_vars

(***************************************************************************)
(* Properties of the environment.                                          *)
(***************************************************************************)
Infeasible(cfg) == cfg.trees.minDistance > cfg.trees.maxDistance

\* A step of placeTrees that made a draw
TreeDrawStep ==
    pc = "placeTrees" /\ (attempts' = attempts + 1 \/ slot' = slot + 1)

\* A step of placeTrees that ended a slot on the last draw of its budget
ExhaustedStep ==
    pc = "placeTrees" /\ slot' = slot + 1 /\ attempts + 1 >= maxAttempts

\* C1: the accepted tree positions (placedPositions, one per tree) are
\* pairwise at least minDistance apart, at every moment of placement and after.
C1_MinSpacing ==
    /\ pc # "destroyed" => Len(trees) = Len(placedPositions)
    /\ \A i, j \in DOMAIN placedPositions :
          i < j => DistanceSq(placedPositions[i], placedPositions[j])
                      >= config.trees.minDistance * config.trees.minDistance

C1_Witness == pc = "ready" /\ Len(placedPositions) >= 2 /\ Len(trees) >= 2

\* C2: for every vertex of the generated terrain mesh, the height stored in
\* the mesh equals what getTerrainHeightAt returns for the vertex's (x, z).
C2_MeshEqualsQuery ==
    \A k \in DOMAIN terrain :
        terrain[k].y = getTerrainHeightAt(terrain, noiseTable, config.terrain,
                                          terrain[k].x, terrain[k].z)

\* C3: every placed tree, flower and rock has position.y equal to
\* getTerrainHeightAt at its (x, z).
C3_ObjectsOnGround ==
    pc = "ready" =>
        \A o \in {trees[k] : k \in DOMAIN trees}
                 \cup {[x |-> flowers[k].x, y |-> flowers[k].y, z |-> flowers[k].z] :
                          k \in DOMAIN flowers}
                 \cup {rocks[k] : k \in DOMAIN rocks} :
            o.y = YVal(getTerrainHeightAt(terrain, noiseTable, config.terrain,
                                          DyInt(o.x), DyInt(o.z)), 0)

C7_ValidDrawAccepted ==
    [][ (TreeDrawStep /\ isValidTreePosition(position', placedPositions,
                                             config.trees.minDistance))
          => trees' = Append(trees, createTree(position')) ]_vars

\* The draws that placement can still make: the full budget of the slots
\* not begun, and what is left of the budget of the current slot.
Rank ==
    IF pc = "placeTrees"
    THEN (config.trees.count - slot) * maxAttempts - attempts
    ELSE 0

\* C8: placement terminates for every configuration, the infeasible one
\* (count 10, minDistance 20, maxDistance 15) included: every draw uses up
\* one of count * 50 draws, none is made when they are used up, and the
\* infeasible configuration ends with fewer trees than count.
C8_Terminates ==
    /\ [](/\ 0 <= Rank /\ Rank <= config.trees.count * maxAttempts
          /\ attempts < maxAttempts
          /\ (pc = "placeTrees" => slot < config.trees.count)
          /\ (pc \in {"createGrassPatches", "placeFlowers", "placeRocks", "ready"}
                 => slot = config.trees.count)
          /\ ((Infeasible(config) /\ pc \notin {"new", "placeTrees", "destroyed"})
                 => Len(trees) < config.trees.count))
    /\ [][TreeDrawStep => Rank' < Rank]_vars

C8_Witness ==
    /\ Infeasible(config) /\ pc = "createGrassPatches"
    /\ Len(trees) = 2 /\ slot = 10

\* C9: the number of trees never exceeds the configured count (nor the
\* number of slots tried so far).
C9_AtMostCount ==
    /\ Len(trees) <= config.trees.count
    /\ Len(trees) <= slot
    /\ Len(placedPositions) <= config.trees.count

C9_Witness == pc = "ready" /\ Len(trees) = config.trees.count

\* C10: a slot whose budget is exhausted adds nothing and raises nothing;
\* the slots after it are tried and generation runs to completion.
C10_ExhaustedSlotSkipped ==
    /\ [][ExhaustedStep =>
            /\ trees' = trees
            /\ placedPositions' = placedPositions
            /\ pc' = IF slot + 1 < config.trees.count
                     THEN "placeTrees" ELSE "createGrassPatches"]_vars
    /\ [](pc = "ready" =>
            /\ inScene
            /\ slot = config.trees.count
            /\ Len(grassPatches) = config.grass.patchCount
            /\ Len(flowers) = config.flowers.count
            /\ Len(rocks) = config.rocks.count
            /\ statsObjects = Len(trees) + Len(grassPatches) + Len(flowers)
                                + Len(rocks) + 1)

C10_Witness ==
    /\ pc = "ready" /\ inScene /\ Len(trees) < slot
    /\ ~Infeasible(config) /\ Len(rocks) = config.rocks.count

(***************************************************************************)
(* Properties of the day cycle.                                            *)
(***************************************************************************)
\* The hour lies after the last keyframe or before the first
InWrappedInterval(h) ==
    \/ DLess[DOfInt(times[Len(times)]), h]
    \/ DLess[h, DOfInt(times[1])]

\* The interpolation between the last and the first keyframe by the
\* position of the hour on the interval from 22 over midnight to 6
WrappedLighting(h) ==
    LET last   == times[Len(times)]
        span   == DOfInt(24 - last + times[1])
        offset == IF DLess[h, DOfInt(times[1])]
                  THEN DAdd[h, DOfInt(24 - last)]
                  ELSE DSub[h, DOfInt(last)]
    IN  InterpolateKeyframes[timeData, last, times[1], DDiv[offset, span]]

\* The intensities the three lights have
LightIntensities ==
    [sunIntensity |-> Deref(sunLight).intensity,
     ambientIntensity |-> Deref(ambientLight).intensity,
     hemisphereIntensity |-> Deref(hemisphereLight).intensity]

\* C5: for an hour after the last keyframe or before the first, the lights
\* get the interpolation between the last and the first keyframe at the
\* hour's position on the wrapped interval.
C5_WrapInterpolated ==
    (sunLight # Null /\ InWrappedInterval(hour))
        => LightIntensities = WrappedLighting(hour)

\* C6: at a keyframe hour the lights get exactly the keyframe's values.
C6_KeyframeExact ==
    \A i \in DOMAIN times :
        (sunLight # Null /\ hour = DOfInt(times[i]))
            => LightIntensities = timeData[times[i]]

(***************************************************************************)
(* Properties of generation as a whole.                                    *)
(***************************************************************************)
\* C11: with a configuration whose tree minDistance exceeds its maxDistance
\* generation is rejected at entry: no terrain and no instance is ever
\* created.
C11_RejectedAtEntry ==
    Infeasible(config) =>
        /\ terrain = <<>>
        /\ trees = <<>> /\ grassPatches = <<>> /\ flowers = <<>> /\ rocks = <<>>

(***************************************************************************)
(* Properties of the displacement routines.                                *)
(***************************************************************************)
\* The vertices the displacement loop has passed
Displaced == 1..vertexIndex

FiniteVertex(v) == IsFiniteNumber(v.x) /\ IsFiniteNumber(v.y) /\ IsFiniteNumber(v.z)

\* C12: in the routines that convert a vertex to spherical coordinates or
\* normalise it (sphere, rock, normalize2D) a vertex at the local origin
\* gets zero displacement and finite coordinates, never NaN.
C12_OriginSpecialCased ==
    /\ \A k \in Displaced :
          (routine \in {"sphere", "rock"} /\ inputPositions[k] = VertexAt(0, 0, 0))
              => (FiniteVertex(positions[k]) /\ positions[k] = inputPositions[k])
    /\ normalized # Null =>
          (IsFiniteNumber(Deref(normalized).x) /\ IsFiniteNumber(Deref(normalized).y))

\* C13: with irregularity 0 the trunk, sphere, cone and rock routines leave
\* every vertex as it was, whatever the noise values.
C13_ZeroIrregularityIsIdentity ==
    irregularity = DOfInt(0) =>
        \A k \in Displaced : positions[k] = inputPositions[k]

(***************************************************************************)
(* Properties of the noise functions.                                      *)
(***************************************************************************)
\* C14: whatever octave count is passed, the value fractalNoise returns
\* lies in [-1, 1] (the samples of noise it sums do).
C14_FractalWithinUnit ==
    fractal # Null =>
        /\ ~IsNaN(Deref(fractal))
        /\ ~NLess[DOfInt(1), Deref(fractal)]
        /\ ~NLess[Deref(fractal), DOfInt(-1)]

\* The table has twice noiseTableSize entries (512 in the source)
TableLength == 2 * noiseTableSize

\* C15: once built, whatever the shuffle drew, the permutation table has
\* twice noiseTableSize entries, its first half holds every value
\* 0..noiseTableSize-1 exactly once, and its second half repeats the first.
C15_TableIsDoubledPermutation ==
    noiseTable # <<>> =>
        /\ Len(noiseTable) = TableLength
        /\ \A v \in 0..(noiseTableSize - 1) :
              Cardinality({i \in 0..(noiseTableSize - 1) : At(noiseTable, i) = v}) = 1
        /\ \A i \in 0..(noiseTableSize - 1) :
              At(noiseTable, i + noiseTableSize) = At(noiseTable, i)

\* A table was built by a shuffle that exchanged entries
C15_Witness == noiseTable # <<>> /\ At(noiseTable, 0) # 0

C17_LookupsInBounds == lookups \subseteq 0..(TableLength - 1)

\* A call read the last entry of the table
C17_Witness == (TableLength - 1) \in lookups

(***************************************************************************)
(* Properties of the delivery and of the life of the instances.            *)
(***************************************************************************)
\* Generation ran to its end: terrain, every tree slot, grass, flowers, rocks
GenerationComplete ==
    /\ pc = "ready"
    /\ terrain # <<>>
    /\ slot = config.trees.count
    /\ Len(grassPatches) = config.grass.patchCount
    /\ Len(flowers) = config.flowers.count
    /\ Len(rocks) = config.rocks.count

\* C18: the scene holds the environment group, and with it the generated
\* objects, only when generation is complete; while init runs and after it
\* failed midway the scene holds none of them.
C18_AllOrNothing == inScene => GenerationComplete

\* init failed after trees were created, and the scene holds nothing
C18_Witness == pc = "failed" /\ terrain # <<>> /\ Len(trees) >= 1 /\ ~inScene

\* A step of Environment.update
UpdateStep == windTime' # windTime

\* A flower but for its rotation.z
Unswayed(f) == [x |-> f.x, y |-> f.y, z |-> f.z]

\* C19: a call of update adds, removes and repositions no tree, grass
\* patch, flower or rock and leaves the terrain and the scene alone; it
\* changes the wind time and the flowers' rotation.z only.
C19_UpdateOnlySways ==
    [][UpdateStep =>
        /\ trees' = trees /\ grassPatches' = grassPatches /\ rocks' = rocks
        /\ terrain' = terrain /\ inScene' = inScene /\ statsObjects' = statsObjects
        /\ DOMAIN flowers' = DOMAIN flowers
        /\ \A k \in DOMAIN flowers : Unswayed(flowers'[k]) = Unswayed(flowers[k])]_vars

\* Two updates have run on an environment with trees, flowers and rocks
C19_Witness ==
    /\ pc = "ready" /\ windTime >= 2
    /\ trees # <<>> /\ rocks # <<>>
    /\ flowers # <<>> /\ flowers[1].swayedAt = windTime

\* The point (x, z) of the ground plane lies less than maxDistance from the
\* origin.
InDisk(x, z, maxDistance) == x * x + z * z < maxDistance * maxDistance

\* C20: every candidate drawn by the polar sampler has y = 0 and a
\* horizontal distance from the origin below the maxDistance it was drawn
\* with, so every tree, flower and rock that was placed lies within the
\* maxDistance of its category.
C20_SampledInsideDisk ==
    /\ position # <<>> =>
          /\ position.y = 0
          /\ InDisk(position.x, position.z, config.trees.maxDistance)
    /\ \A k \in DOMAIN trees :
          InDisk(trees[k].x, trees[k].z, config.trees.maxDistance)
    /\ \A k \in DOMAIN flowers :
          InDisk(flowers[k].x, flowers[k].z, config.flowers.maxDistance)
    /\ \A k \in DOMAIN rocks :
          InDisk(rocks[k].x, rocks[k].z, config.rocks.maxDistance)

\* Generation has finished with a tree, a flower and a rock placed away from
\* the origin.
C20_Witness ==
    /\ pc = "ready"
    /\ \E k \in DOMAIN trees : trees[k].x # 0 \/ trees[k].z # 0
    /\ \E k \in DOMAIN flowers : flowers[k].x # 0 \/ flowers[k].z # 0
    /\ \E k \in DOMAIN rocks : rocks[k].x # 0 \/ rocks[k].z # 0

\* C21: after any sequence of update and setTimeOfDay calls the hour handed
\* to the day-cycle interpolation satisfies 0 <= hour < 24.
C21_HourWithinDay ==
    /\ ~DLess[hour, DOfInt(0)]
    /\ DLess[hour, DOfInt(24)]

(***************************************************************************)
(* Properties of the input system.                                         *)
(***************************************************************************)

\* A key mapped to the action is held.
KeyHeldFor(action) == \E k \in keys : KeyMappings[k] = action

\* The connected gamepad presses the button of the action.
GamepadAsserts(pad, action) == pad # Null /\ ButtonMappings[action] \in Deref(pad)

\* C22: once the key of an action is released, with no key mapped to the
\* action held, the action false and no gamepad button asserting it, an
\* update leaves the action false: replaying the input buffer does not turn
\* a released action back on.
C22_ReleasedStaysOff ==
    [][\A a \in DOMAIN actions :
          (/\ lastUpdate' # lastUpdate
           /\ ~KeyHeldFor(a)
           /\ ~actions[a]
           /\ ~GamepadAsserts(gamepad, a))
          => ~actions'[a]]_vars

\* C23: the listeners of 'menu' and of 'inventory' are triggered once for
\* each key-down of a key mapped to the action, so never more often than
\* such key-downs happened, however many updates fall into the buffer time.
C23_ListenersOncePerKeyDown ==
    \A a \in {"menu", "inventory"} : listenerCalls[a] <= keyDowns[a]

\* C29: the context stack is never empty, its bottom element is 'game',
\* every element of it is a mode that is defined, and contexts.current is
\* its top element.
C29_ContextStackWellFormed ==
    /\ contexts.stack # <<>>
    /\ contexts.stack[1] = "game"
    /\ \A k \in DOMAIN contexts.stack : contexts.stack[k] \in Modes
    /\ contexts.current = contexts.stack[Len(contexts.stack)]

(***************************************************************************)
(* Properties of the audio system.                                         *)
(***************************************************************************)

\* C24: when the timeout that stopMusic set while fading out a track
\* fires, that track's source is stopped, and a track that has become the
\* current music since is still the current music and still plays.
C24_FadeStopsOldTrackOnly ==
    [][(fadeTimers # <<>> /\ fadeTimers' = Tail(fadeTimers))
       => /\ musicSources'[Head(fadeTimers)].stopped
          /\ (currentMusic # Null /\ Deref(currentMusic) # Head(fadeTimers))
             => /\ currentMusic' = currentMusic
                /\ ~musicSources'[Deref(currentMusic)].stopped]_vars

\* The items of the pool that are marked playing
BusySlots == {k \in DOMAIN soundPool : soundPool[k].playing}

\* C27: the number of busy items of a pool is the number of the sound's
\* instances that play (all of the pool's items when more instances play
\* than the pool has items), so the item of a sound that ended is free.
C27_BusySlotsArePlayingSounds ==
    Cardinality(BusySlots) =
        IF Cardinality(playingSounds) < PoolSize THEN Cardinality(playingSounds)
                                                   ELSE PoolSize

\* C28: while the audio state is muted the gain of the master node is 0,
\* and while it is not the gain is the configured master volume.
C28_MutedMeansSilent ==
    /\ muted => gains.master = 0
    /\ ~muted => gains.master = audioConfig.masterVolume

(***************************************************************************)
(* Properties of the character.                                            *)
(***************************************************************************)

\* C25: when an update runs with the velocity jump() set still in place,
\* that is, the first update after a jump that succeeded, the position
\* rises: the ground check of the update the jump happened in has not
\* taken the jump back.
C25_JumpLeavesGround ==
    [][(characterUpdates' # characterUpdates /\ velocityY = DOfInt(jumpForce))
       => DLess[positionY, positionY']]_vars

(***************************************************************************)
(* Properties of the game object.                                          *)
(***************************************************************************)

\* C26: from the call of showError until the page is reloaded, no frame
\* updates the subsystems or renders, whatever focus, blur and
\* visibilitychange events arrive.
C26_ErrorKeepsGamePaused ==
    [][(errorShown /\ errorShown') => frames' = frames]_vars

(***************************************************************************)
(* Properties of the UI.                                                   *)
(***************************************************************************)

\* C30: at most maxVisible notifications are displayed at any time, and a
\* notification enters the container only as the head of the queue, in a
\* step that found fewer than maxVisible displayed.
C30_AtMostMaxVisible ==
    /\ [](Cardinality(container) <= maxVisible)
    /\ [][container' \ container # {}
          => /\ Cardinality(container) < maxVisible
             /\ queue # <<>>
             /\ container' = container \cup {Head(queue)}
             /\ queue' = Tail(queue)]_vars

\* maxVisible notifications are displayed and another one waits in the
\* queue.
C30_Witness == Cardinality(container) = maxVisible /\ queue # <<>>

====
